---- MODULE Spec2Model ----
(***************************************************************************)
(* Analytical core of analizador-ai-pape: the population filter, the       *)
(* social-program analyzers, the cross-tabulation engine and the           *)
(* natural-language query translator of src/backend/                       *)
(* analizador_optimizado.py, over a small shared table of persons.         *)
(*                                                                         *)
(* Python values are modelled as follows.  A str is a TLA+ string (Len,    *)
(* SubSeq and \o work on strings as on sequences of characters).  A dict   *)
(* is a function whose domain is its set of keys.  A DataFrame is a record *)
(* [columnas, filas]: the set of column names and the sequence of rows,    *)
(* each row a function from column name to value.  A raised exception is a *)
(* result of tipo "excepcion".                                             *)
(***************************************************************************)
EXTENDS Integers, Sequences, FiniteSets, TLC

VARIABLES
    df,          \* the shared table every analyzer holds as self.df
    resultado,   \* the call the caller is looking at: operation, arguments, outcome
    traduccion,  \* what the last traducir_consulta_natural call returned
    memo,        \* per query translated: what its first call returned, and its calls so far
    messages,    \* self.messages of AgenteAnaliticoLLM: the history sent to the LLM
    session_state  \* st.session_state of the chat UI

vars == <<df, resultado, traduccion, memo, messages, session_state>>

\* self.messages = [{"role": "system", "content": contexto}]
HistoriaInicial == <<[role |-> "system"]>>

\* the session state of a browser session that has not logged in
SinSesion == [autenticado |-> FALSE]

Nada == [op |-> "ninguna"]

(***************************************************************************)
(* Bounds of the model.                                                    *)
(***************************************************************************)
MaxFilas == 2     \* rows of the shared table
MaxFrases == 2    \* phrases joined into one query
MaxVeces == 2     \* translations of one query in a run of translations

(***************************************************************************)
(* Strings.                                                                *)
(***************************************************************************)
Mayusculas == "ABCDEFGHIJKLMNOPQRSTUVWXYZÁÉÍÓÚÑ"
Minusculas == "abcdefghijklmnopqrstuvwxyzáéíóúñ"

\* str.lower() of one character
MinusculaDe(c) ==
    IF \E i \in 1..Len(Mayusculas) : SubSeq(Mayusculas, i, i) = c
    THEN LET i == CHOOSE j \in 1..Len(Mayusculas) : SubSeq(Mayusculas, j, j) = c
         IN  SubSeq(Minusculas, i, i)
    ELSE c

RECURSIVE Lower(_)
\* str.lower()
Lower(s) ==
    IF Len(s) = 0 THEN s
    ELSE MinusculaDe(SubSeq(s, 1, 1)) \o Lower(SubSeq(s, 2, Len(s)))

\* Python's `t in s` on two str: t occurs in s as a contiguous substring
Contiene(s, t) ==
    \E i \in 1..(Len(s) - Len(t) + 1) : SubSeq(s, i, i + Len(t) - 1) = t

\* Series.str.contains(t, case=False, na=False) on one cell, for a pattern t
\* made of letters, digits and spaces (a pattern without regex operators)
ContieneSinCaja(s, t) == Contiene(Lower(s), Lower(t))

\* str.startswith
EmpiezaCon(s, t) == Len(t) <= Len(s) /\ SubSeq(s, 1, Len(t)) = t

\* a local variable of the code: v is computed once and Cuerpo uses its value
Sea(v, Cuerpo(_)) == CHOOSE r \in {Cuerpo(x) : x \in {v}} : TRUE

(***************************************************************************)
(* Dicts.                                                                  *)
(***************************************************************************)
DictVacio == [k \in {} |-> TRUE]

\* d[k] = v
Poner(d, k, v) == [x \in (DOMAIN d) \cup {k} |-> IF x = k THEN v ELSE d[x]]

(***************************************************************************)
(* The shared table.                                                       *)
(***************************************************************************)
ColSalud == "presencia_carencia_salud_persona"
ColEducacion == "presencia_rezago_educativo_persona"
ColSeguridad == "presencia_carencia_seguridad_social_persona"
ColApoyos == "recibe_apoyos_sociales"

\* f"es_elegible_{programa}"
ColumnaPrograma(programa) == "es_elegible_" \o programa

ColumnasBase ==
    {"id_hogar", "edad_persona", "sexo_persona", "colonia", "ageb", "ubicacion",
     ColSalud, ColEducacion, ColSeguridad}

\* programs that can have an eligibility column in a table of the model
ProgramasModelo == {"pension_adultos_mayores", "imss_bienestar"}

Persona(hogar, edad, sexo, colonia, ageb, ubic, salud, educ, segur, apoyos, elegible) ==
    [c \in ColumnasBase \cup {ColApoyos} \cup {ColumnaPrograma(p) : p \in ProgramasModelo} |->
        CASE c = "id_hogar" -> hogar
          [] c = "edad_persona" -> edad
          [] c = "sexo_persona" -> sexo
          [] c = "colonia" -> colonia
          [] c = "ageb" -> ageb
          [] c = "ubicacion" -> ubic
          [] c = ColSalud -> salud
          [] c = ColEducacion -> educ
          [] c = ColSeguridad -> segur
          [] c = ColApoyos -> apoyos
          [] OTHER -> IF \E p \in elegible : c = ColumnaPrograma(p) THEN "yes" ELSE "no"]

\* the persons a table of the model is drawn from
Personas ==
    { Persona(1, 70, "Mujer", "Centro", "0011", "urbana", "yes", "no", "yes", "no",
              {"pension_adultos_mayores"}),
      Persona(1, 12, "Hombre", "Centro", "0011", "urbana", "no", "yes", "no", "yes", {}),
      Persona(2, 65, "Hombre", "Barrio Norte", "0025", "rural", "yes", "yes", "yes", "no",
              {"pension_adultos_mayores", "imss_bienestar"}),
      Persona(2, 30, "Mujer", "Barrio Norte", "0025", "rural", "no", "no", "no", "no",
              {"imss_bienestar"}),
      Persona(3, 120, "Hombre", "Sur", "0030", "zona centro", "no", "no", "yes", "yes", {}) }

\* the schemas of the model: which optional columns the ingestion produced
Esquemas ==
    { ColumnasBase \cup {ColApoyos} \cup {ColumnaPrograma(p) : p \in ProgramasModelo},
      ColumnasBase \cup {ColumnaPrograma("pension_adultos_mayores")} }

Restringir(fila, columnas) == [c \in columnas |-> fila[c]]

SecuenciasHasta(S, n) == UNION { [1..k -> S] : k \in 0..n }

Tablas ==
    { [columnas |-> cols, filas |-> [i \in 1..Len(fs) |-> Restringir(fs[i], cols)]] :
        cols \in Esquemas, fs \in SecuenciasHasta(Personas, MaxFilas) }

\* len(df)
NumFilas(t) == Len(t.filas)

\* df[mascara]: a new DataFrame with the rows the mask keeps, in their order
FiltrarFilas(t, Mascara(_)) == [columnas |-> t.columnas, filas |-> SelectSeq(t.filas, Mascara)]

(***************************************************************************)
(* pandas objects.  A call works on three DataFrame objects at most: the   *)
(* shared one, the one DataFrame.copy() makes and the one a selection or a *)
(* drop/rename makes.  An object store maps each to its contents, so that  *)
(* an assignment into a column changes the object the name is bound to.    *)
(***************************************************************************)
Objetos(t) == [compartida |-> t, copia |-> t, derivada |-> t]

\* no copy: the name is bound to the object itself
Alias(ref) == ref

\* DataFrame.copy(): the reference of a new object with the same contents
Copia(ref) == "copia"

\* the store after `x = ref.copy()`
TrasCopia(h, ref) == [h EXCEPT ![Copia(ref)] = h[ref]]

\* df[columna] = valores (one value per row), in place
AsignarColumna(t, columna, valores) ==
    [columnas |-> t.columnas \cup {columna},
     filas |-> [i \in 1..Len(t.filas) |->
                  [c \in t.columnas \cup {columna} |->
                      IF c = columna THEN valores[i] ELSE t.filas[i][c]]]]

(***************************************************************************)
(* DelimitadorPoblacional.aplicar_filtros                                  *)
(***************************************************************************)
CarenciaMap ==
    [carencia_salud |-> ColSalud,
     carencia_educacion |-> ColEducacion,
     carencia_seguridad_social |-> ColSeguridad]

\* bool(v) for the value v a criteria dict holds under key k
Verdadero(k, v) ==
    CASE k = "rango_edad" -> Len(v) > 0
      [] k \in DOMAIN CarenciaMap -> v
      [] OTHER -> v # ""

\* `k in criterios and criterios[k]`
Pide(criterios, k) == k \in DOMAIN criterios /\ Verdadero(k, criterios[k])

\* sexo_map.get(sexo, sexo)
SexoValor(sexo) ==
    CASE sexo = "M" -> "Mujer"
      [] sexo = "H" -> "Hombre"
      [] OTHER -> sexo

\* the range without its upper bound
EnRangoAbierto(fila, rango) == fila["edad_persona"] >= rango[1] /\ fila["edad_persona"] < rango[2]

\* (edad_persona >= edad_min) & (edad_persona <= edad_max)
EnRango(fila, rango) == fila["edad_persona"] >= rango[1] /\ fila["edad_persona"] <= rango[2]

\* colonia | ageb | ubicacion contains the text, ignoring case
EnUbicacion(fila, texto) ==
    \/ ContieneSinCaja(fila["colonia"], texto)
    \/ ContieneSinCaja(fila["ageb"], texto)
    \/ ContieneSinCaja(fila["ubicacion"], texto)

\* the keys for which aplicar_filtros appends a condition to `condiciones`
Condiciones(criterios, t) ==
    {k \in {"rango_edad", "sexo", "ubicacion"} \cup DOMAIN CarenciaMap : Pide(criterios, k)}
    \cup {k \in {"programa_social"} :
            /\ Pide(criterios, k)
            /\ ColumnaPrograma(criterios[k]) \in t.columnas}

\* the condition appended for key k, on one row
Condicion(k, criterios, fila) ==
    CASE k = "rango_edad" -> EnRango(fila, criterios[k])
      [] k = "sexo" -> fila["sexo_persona"] = SexoValor(criterios[k])
      [] k = "ubicacion" -> EnUbicacion(fila, criterios[k])
      [] k \in DOMAIN CarenciaMap -> fila[CarenciaMap[k]] = "yes"
      [] k = "programa_social" -> fila[ColumnaPrograma(criterios[k])] = "yes"

\* mascara_final: condiciones[0], then `&=` with each other one
MascaraFinal(conds, criterios, fila) == \A k \in conds : Condicion(k, criterios, fila)

\* DelimitadorPoblacional.aplicar_filtros(criterios): the object store when it returns
\* and the reference of the DataFrame it returns
AplicarFiltros(t, criterios) ==
    LET h0 == TrasCopia(Objetos(t), "compartida")
        copia == Copia("compartida")
        conds == Condiciones(criterios, t)
        Mascara(fila) == MascaraFinal(conds, criterios, fila)
    IN  IF conds # {}
        THEN [objetos |-> [h0 EXCEPT !.derivada = FiltrarFilas(h0[copia], Mascara)],
              ref |-> "derivada"]
        ELSE [objetos |-> h0, ref |-> copia]

\* the DataFrame of the call without its first row
DevueltoSinPrimera(r) ==
    [columnas |-> r.objetos[r.ref].columnas,
     filas |-> SubSeq(r.objetos[r.ref].filas, 2, Len(r.objetos[r.ref].filas))]

\* the DataFrame a call hands back
Devuelto(r) == r.objetos[r.ref]

(***************************************************************************)
(* AnalizadorProgramasSociales._aplicar_filtros_basicos                    *)
(***************************************************************************)
\* the carencia names of the analyzers' own carencia_map
CarenciaMapCorto ==
    [salud |-> ColSalud, educacion |-> ColEducacion, seguridad_social |-> ColSeguridad]

\* one argument of a call: <<>> is None, <<v>> is the value v
Dado(arg) == arg # <<>>
Valor(arg) == arg[1]

\* `if rango_edad:` and the like: the argument is given and truthy
DadoRango(arg) == Dado(arg) /\ Len(Valor(arg)) > 0
DadoTexto(arg) == Dado(arg) /\ Valor(arg) # ""

FiltrosBasicos(t, rango_edad, ubicacion, sexo, carencia) ==
    LET h0 == TrasCopia(Objetos(t), "compartida")
        base == h0[Copia("compartida")]
        PorEdad(fila) == DadoRango(rango_edad) => EnRango(fila, Valor(rango_edad))
        PorSexo(fila) == DadoTexto(sexo) => fila["sexo_persona"] = SexoValor(Valor(sexo))
        PorUbicacion(fila) == DadoTexto(ubicacion) => EnUbicacion(fila, Valor(ubicacion))
        PorCarencia(fila) ==
            (DadoTexto(carencia) /\ Valor(carencia) \in DOMAIN CarenciaMapCorto)
                => fila[CarenciaMapCorto[Valor(carencia)]] = "yes"
        Todas(fila) == PorEdad(fila) /\ PorSexo(fila) /\ PorUbicacion(fila) /\ PorCarencia(fila)
    IN  FiltrarFilas(base, Todas)

(***************************************************************************)
(* Numbers.  A float rounded to d decimals is kept as the integer number   *)
(* of 10^-d units, rounded half to even as round() does.                   *)
(***************************************************************************)
RedondearDiv(a, b) ==
    LET q == a \div b
        r == a % b
    IN  IF 2 * r < b THEN q
        ELSE IF 2 * r > b THEN q + 1
        ELSE IF q % 2 = 0 THEN q ELSE q + 1

Potencia10(d) == IF d = 0 THEN 1 ELSE IF d = 1 THEN 10 ELSE 100

\* the quotient taken as the rate, without the factor 100
TasaSinCien(n, d, dec) == IF d > 0 THEN RedondearDiv(n * Potencia10(dec), d) ELSE 0

\* round(n / d * 100, dec) if d > 0 else 0.0
Tasa(n, d, dec) == IF d > 0 THEN RedondearDiv(n * 100 * Potencia10(dec), d) ELSE 0

RECURSIVE SumaEdades(_)
SumaEdades(filas) ==
    IF Len(filas) = 0 THEN 0 ELSE filas[1]["edad_persona"] + SumaEdades(Tail(filas))

\* the values a column takes in the rows
ValoresDe(t, columna) == {t.filas[i][columna] : i \in 1..Len(t.filas)}

\* how many rows satisfy the predicate
Cuenta(t, Pred(_)) == Len(SelectSeq(t.filas, Pred))

(***************************************************************************)
(* AnalizadorDemografico.generar_perfil_segmento                           *)
(***************************************************************************)
PerfilSegmento(seg) ==
    IF NumFilas(seg) = 0 THEN DictVacio
    ELSE [total_personas |-> NumFilas(seg),
          edad_promedio |-> RedondearDiv(SumaEdades(seg.filas) * 10, NumFilas(seg)),
          distribucion_sexo |->
              [s \in ValoresDe(seg, "sexo_persona") |->
                  LET Es(fila) == fila["sexo_persona"] = s IN Cuenta(seg, Es)],
          hogares_afectados |-> Cardinality(ValoresDe(seg, "id_hogar")),
          personas_por_hogar |->
              RedondearDiv(NumFilas(seg) * 100, Cardinality(ValoresDe(seg, "id_hogar")))]

(***************************************************************************)
(* AnalizadorProgramasSociales: construction.  The class body binds        *)
(* __init__ twice; the class keeps the binding made last.                  *)
(***************************************************************************)
DefinicionesInit ==
    << [linea |-> 571, parametros |-> <<"df_completo">>,
        atributos |-> {"df", "programas_disponibles", "programas_nombres", "mapeo_programas"}],
       \* line 1313 sets self.df; line 1314 builds an AnalizadorUnidimensional,
       \* whose line 2105 calls this class with the table alone
       [linea |-> 1312, parametros |-> <<"df_completo", "api_key">>,
        atributos |-> {"df"}] >>

\* the __init__ a call of the class runs
InitEfectivo == DefinicionesInit[Len(DefinicionesInit)]

\* the attributes a method of the class finds on self
AtributosReceptor == InitEfectivo.atributos

\* [col for col in df.columns if col.startswith('es_elegible_')]
ProgramasDisponibles(t) == {c \in t.columnas : EmpiezaCon(c, "es_elegible_")}

\* col.replace('es_elegible_', '') for a column that has the prefix once
NombrePrograma(c) == SubSeq(c, Len("es_elegible_") + 1, Len(c))

ProgramasNombres(t) == {NombrePrograma(c) : c \in ProgramasDisponibles(t)}

Excepcion(tipo, detalle) == [tipo |-> "excepcion", valor |-> [clase |-> tipo, detalle |-> detalle]]
Retorno(v) == [tipo |-> "retorno", valor |-> v]

\* a call of the class with nargs positional arguments binds them to the
\* parameters of the effective __init__, or raises TypeError
AridadCorrecta(nargs) == nargs = Len(InitEfectivo.parametros)

\* AnalizadorUnidimensional(df_completo): line 2105 calls
\* AnalizadorProgramasSociales(df_completo), with the table alone
ConstruirUnidimensional(t) ==
    IF AridadCorrecta(1)
    THEN Retorno([clase |-> "AnalizadorUnidimensional"])
    ELSE Excepcion("TypeError", "__init__")

\* AnalizadorProgramasSociales(*args) with nargs positional arguments
ConstruirProgramas(t, nargs) ==
    IF ~AridadCorrecta(nargs)
    THEN Excepcion("TypeError", "__init__")
    ELSE IF InitEfectivo.linea = 571
    THEN Retorno([clase |-> "AnalizadorProgramasSociales",
                  programas_disponibles |-> ProgramasDisponibles(t),
                  programas_nombres |-> ProgramasNombres(t)])
    \* line 1314: self.analizador = AnalizadorUnidimensional(df_completo)
    ELSE IF ConstruirUnidimensional(t).tipo = "excepcion"
    THEN ConstruirUnidimensional(t)
    ELSE Retorno([clase |-> "AnalizadorProgramasSociales"])

(***************************************************************************)
(* AnalizadorProgramasSociales.analizar_elegibilidad_programa              *)
(***************************************************************************)
ErrorDict(mensaje) == [error |-> mensaje]

\* nobody is eligible for anything
NuncaElegible(fila, programa) == FALSE

\* df[columna_programa] == 'yes' on one row
EsElegible(fila, programa) == fila[ColumnaPrograma(programa)] = "yes"

ElegibilidadPrograma(t, programa, rango_edad, ubicacion, sexo, carencia) ==
    IF ColumnaPrograma(programa) \notin t.columnas
    THEN IF {"programas_nombres", "programas_disponibles"} \subseteq AtributosReceptor
         THEN Retorno([error |-> "Programa no encontrado",
                       programas_disponibles |-> ProgramasNombres(t),
                       columnas_reales |-> ProgramasDisponibles(t)])
         ELSE Excepcion("AttributeError", "programas_nombres")
    ELSE
    LET filtrado == FiltrosBasicos(t, rango_edad, ubicacion, sexo, carencia)
        Elegible(fila) == EsElegible(fila, programa)
        elegibles == FiltrarFilas(filtrado, Elegible)
        total_elegibles == NumFilas(elegibles)
        CarenciaDetectada(col) ==
            LET Con(fila) == fila[col] = "yes"
            IN  [cantidad |-> Cuenta(elegibles, Con),
                 porcentaje |-> Tasa(Cuenta(elegibles, Con), total_elegibles, 2)]
    IN  IF NumFilas(filtrado) = 0
        THEN Retorno(ErrorDict("No hay personas que cumplan los criterios especificados"))
        ELSE IF "mapeo_programas" \notin AtributosReceptor
        THEN Excepcion("AttributeError", "mapeo_programas")
        ELSE Retorno(
            [programa |-> programa,
             seccion_1_poblacion_elegible |->
                [total_elegibles |-> total_elegibles,
                 tasa_elegibilidad |-> Tasa(total_elegibles, NumFilas(filtrado), 2),
                 hogares_afectados |-> Cardinality(ValoresDe(elegibles, "id_hogar")),
                 porcentaje_del_total_estudio |-> Tasa(total_elegibles, NumFilas(t), 2)],
             seccion_3_carencias_detectadas |->
                [c \in {ColSalud, ColEducacion, ColSeguridad} \cap elegibles.columnas |->
                    CarenciaDetectada(c)]])

\* a dict result that has the 'error' key
EsError(r) == r.tipo = "retorno" /\ "error" \in DOMAIN r.valor

(***************************************************************************)
(* AnalizadorProgramasSociales.analizar_brechas_programa_grupo             *)
(***************************************************************************)
BrechasProgramaGrupo(t, programa, rango_edad, ubicacion) ==
    IF ColumnaPrograma(programa) \notin t.columnas
    THEN Retorno(ErrorDict("Programa no encontrado"))
    ELSE
    LET filtrado == FiltrosBasicos(t, rango_edad, ubicacion, <<>>, <<>>)
        Elegible(fila) == EsElegible(fila, programa)
        elegibles == FiltrarFilas(filtrado, Elegible)
        SinApoyo(fila) == fila[ColApoyos] = "no"
        brecha == FiltrarFilas(elegibles, SinApoyo)
    IN  IF NumFilas(filtrado) = 0
        THEN Retorno(ErrorDict("No hay personas que cumplan los criterios iniciales"))
        ELSE IF NumFilas(elegibles) = 0
        THEN Retorno([tipo_analisis |-> "brecha_programa", programa |-> programa,
                      metricas_principales |->
                          [total_elegibles |-> 0, total_brecha |-> 0, tasa_brecha |-> 0],
                      perfil_brecha |-> DictVacio])
        ELSE IF ColApoyos \notin elegibles.columnas
        THEN Retorno(ErrorDict("Columna 'recibe_apoyos_sociales' no encontrada"))
        ELSE Retorno([tipo_analisis |-> "brecha_programa", programa |-> programa,
                      metricas_principales |->
                          [total_elegibles |-> NumFilas(elegibles),
                           total_brecha |-> NumFilas(brecha),
                           tasa_brecha |-> Tasa(NumFilas(brecha), NumFilas(elegibles), 2)],
                      perfil_brecha |->
                          IF NumFilas(brecha) = 0 THEN DictVacio
                          ELSE [edad_promedio |->
                                    RedondearDiv(SumaEdades(brecha.filas) * 10, NumFilas(brecha)),
                                hogares_afectados |->
                                    Cardinality(ValoresDe(brecha, "id_hogar"))]])

(***************************************************************************)
(* AnalizadorProgramasSociales.identificar_carencias_sin_cobertura         *)
(***************************************************************************)
\* _obtener_programas_por_carencia
ProgramasPorCarencia(carencia) ==
    CASE carencia = "salud" ->
            <<"imss_bienestar", "seguro_desempleo_cdmx", "pension_adultos_mayores">>
      [] carencia = "educacion" ->
            <<"mi_beca_para_empezar", "beca_rita_cetina", "beca_benito_juarez",
              "jovenes_escribiendo_el_futuro", "inea", "desde_la_cuna">>
      [] carencia = "seguridad_social" ->
            <<"pension_adultos_mayores", "pension_mujeres_bienestar",
              "ingreso_ciudadano_universal", "seguro_desempleo_cdmx", "imss_bienestar">>
      [] OTHER -> <<>>

Elementos(seq) == {seq[i] : i \in 1..Len(seq)}

CarenciasSinCobertura(t, carencia, rango_edad, ubicacion) ==
    IF carencia \notin DOMAIN CarenciaMapCorto
    THEN Retorno([error |-> "Carencia no reconocida", validas |-> DOMAIN CarenciaMapCorto])
    ELSE IF CarenciaMapCorto[carencia] \notin t.columnas
    THEN Retorno(ErrorDict("Columna de carencia no encontrada"))
    ELSE
    LET ConCarencia(fila) == fila[CarenciaMapCorto[carencia]] = "yes"
        todas == FiltrarFilas(t, ConCarencia)
        PorEdad(fila) == DadoRango(rango_edad) => EnRango(fila, Valor(rango_edad))
        PorUbicacion(fila) == DadoTexto(ubicacion) => EnUbicacion(fila, Valor(ubicacion))
        Filtro(fila) == PorEdad(fila) /\ PorUbicacion(fila)
        con_carencia == FiltrarFilas(todas, Filtro)
        relacionados == ProgramasPorCarencia(carencia)
        \* the related programs that have a column; the others are skipped
        conColumna == {p \in Elementos(relacionados) : ColumnaPrograma(p) \in t.columnas}
        SinCobertura(fila) == ~ \E p \in conColumna : EsElegible(fila, p)
        sin_cobertura == FiltrarFilas(con_carencia, SinCobertura)
    IN  IF NumFilas(todas) = 0
        THEN Retorno(ErrorDict("No hay personas con carencia"))
        ELSE IF Len(relacionados) = 0
        THEN Retorno(ErrorDict("No hay programas relacionados con carencia"))
        ELSE Retorno([tipo_analisis |-> "carencias_sin_cobertura", carencia |-> carencia,
                      metricas_principales |->
                          [total_personas_con_carencia |-> NumFilas(con_carencia),
                           total_personas_sin_cobertura |-> NumFilas(sin_cobertura),
                           tasa_brecha |->
                               Tasa(NumFilas(sin_cobertura), NumFilas(con_carencia), 2)],
                      programas_relacionados_analizados |-> relacionados,
                      perfil_brecha |->
                          IF NumFilas(sin_cobertura) = 0 THEN DictVacio
                          ELSE [edad_promedio |->
                                    RedondearDiv(SumaEdades(sin_cobertura.filas) * 10,
                                                 NumFilas(sin_cobertura)),
                                hogares_afectados |->
                                    Cardinality(ValoresDe(sin_cobertura, "id_hogar"))]])

(***************************************************************************)
(* AnalizadorProgramasSociales.analizar_intensidad_carencias               *)
(***************************************************************************)
\* the object store when the call returns, and what it returns
IntensidadCarencias(t, rango_edad, ubicacion) ==
    LET h0 == TrasCopia(Objetos(t), "compartida")
        r0 == Copia("compartida")
        filtra == DadoRango(rango_edad) \/ DadoTexto(ubicacion)
        PorEdad(fila) == DadoRango(rango_edad) => EnRango(fila, Valor(rango_edad))
        PorUbicacion(fila) == DadoTexto(ubicacion) => EnUbicacion(fila, Valor(ubicacion))
        Filtro(fila) == PorEdad(fila) /\ PorUbicacion(fila)
        \* df_analisis = df_analisis[...] binds the name to a new object
        h1 == IF filtra THEN [h0 EXCEPT !.derivada = FiltrarFilas(h0[r0], Filtro)] ELSE h0
        r1 == IF filtra THEN "derivada" ELSE r0
        validas == {ColSalud, ColEducacion, ColSeguridad} \cap h1[r1].columnas
        totales == [i \in 1..NumFilas(h1[r1]) |->
                       Cardinality({c \in validas : h1[r1].filas[i][c] = "yes"})]
        \* df_analisis['total_carencias'] = 0, then += per column
        h2 == [h1 EXCEPT ![r1] = AsignarColumna(h1[r1], "total_carencias", totales)]
        analisis == h2[r1]
        total == NumFilas(analisis)
        Nivel(n) ==
            LET Tiene(fila) == fila["total_carencias"] = n
            IN  [cantidad |-> Cuenta(analisis, Tiene),
                 porcentaje |-> Tasa(Cuenta(analisis, Tiene), total, 2)]
    IN  [objetos |-> h2,
         retorno |-> Retorno(
            [tipo_analisis |-> "intensidad_carencias",
             distribucion_intensidad |->
                [sin_carencias |-> Nivel(0), una_carencia |-> Nivel(1),
                 dos_carencias |-> Nivel(2), tres_carencias |-> Nivel(3)],
             poblacion_vulnerabilidad_extrema |->
                [total |-> Nivel(3).cantidad, porcentaje |-> Nivel(3).porcentaje]])]

(***************************************************************************)
(* Multi-program comparison: analizar_elegibilidad_multiple and            *)
(* analizar_brechas_multiprograma                                          *)
(***************************************************************************)
\* sorted(seq, key=Clave, reverse=True): descending, equal keys keep their order
OrdenarDesc(seq, Clave(_)) ==
    Sea(seq, LAMBDA s :
    Sea([i \in 1..Len(s) |-> Clave(s[i])], LAMBDA clave :
        LET n == Len(s)
            Pos(i) == 1 + Cardinality({j \in 1..n :
                            \/ clave[j] > clave[i]
                            \/ (clave[j] = clave[i] /\ j < i)})
        IN  [k \in 1..n |-> s[CHOOSE i \in 1..n : Pos(i) = k]]))

\* the keys of a dict filled in the order of seq: each element once, at its
\* first place
SinRepetir(seq) ==
    LET Primero(i) == \A j \in 1..(i - 1) : seq[j] # seq[i]
        idx == SelectSeq([i \in 1..Len(seq) |-> i], Primero)
    IN  [k \in 1..Len(idx) |-> seq[idx[k]]]

\* seq[:n]
Primeros(seq, n) == SubSeq(seq, 1, IF Len(seq) < n THEN Len(seq) ELSE n)

\* the loop over `programas` of both comparisons: the first exception a call
\* raises, or the programs whose result has no 'error' key with their results
BucleProgramas(t, programas, rango_edad, ubicacion) ==
    Sea([p \in Elementos(programas) |->
            ElegibilidadPrograma(t, p, rango_edad, ubicacion, <<>>, <<>>)], LAMBDA res :
        LET Falla(i) == res[programas[i]].tipo = "excepcion"
            SinError(p) == ~EsError(res[p])
        IN  IF \E i \in 1..Len(programas) : Falla(i)
            THEN res[programas[CHOOSE i \in 1..Len(programas) :
                                   Falla(i) /\ \A j \in 1..(i - 1) : ~Falla(j)]]
            ELSE Retorno([analizados |-> SinRepetir(SelectSeq(programas, SinError)),
                          resultados |-> [p \in {q \in Elementos(programas) : SinError(q)} |->
                                              res[p].valor]]))

TopN == 5

\* resultados[p]['seccion_1_poblacion_elegible']['total_elegibles']
TotalElegibles(resultados, p) == resultados[p].seccion_1_poblacion_elegible.total_elegibles

ElegibilidadMultiple(t, programas, rango_edad, ubicacion) ==
    Sea(BucleProgramas(t, programas, rango_edad, ubicacion), LAMBDA bucle :
        IF bucle.tipo = "excepcion" THEN bucle
        ELSE Sea(OrdenarDesc(bucle.valor.analizados,
                             LAMBDA p : TotalElegibles(bucle.valor.resultados, p)),
                 LAMBDA ordenados :
            Retorno(
                [analisis_comparativo |->
                    IF Len(ordenados) > 0
                    THEN [programa_mayor_elegibilidad |-> ordenados[1],
                          ranking_elegibles |-> Primeros(ordenados, TopN)]
                    ELSE DictVacio,
                 resumen |-> [total_programas_analizados |-> Len(bucle.valor.analizados)]])))

BrechasMultiprograma(t, programas, rango_edad, ubicacion) ==
    Sea(BucleProgramas(t, programas, rango_edad, ubicacion), LAMBDA bucle :
        \* except Exception: the error is returned, not raised
        IF bucle.tipo = "excepcion" THEN Retorno(ErrorDict("Error analizando brechas"))
        ELSE Sea(OrdenarDesc(bucle.valor.analizados,
                             LAMBDA p : TotalElegibles(bucle.valor.resultados, p)),
                 LAMBDA ordenados :
            Retorno(
                [tipo_analisis |-> "brechas_multiprograma",
                 analisis_comparativo |->
                    IF Len(ordenados) > 0
                    THEN [programa_mas_cobertura |-> ordenados[1],
                          ranking_por_elegibles |-> ordenados]
                    ELSE DictVacio,
                 resumen_general |->
                    [total_programas_analizados |-> Len(bucle.valor.analizados)]])))

(***************************************************************************)
(* AnalizadorProgramasSociales.analizar_cobertura_geografica, with top_n   *)
(* above the number of zones of a table of the model                       *)
(***************************************************************************)
CoberturaGeografica(t, programa, nivel_geografico) ==
    IF ColumnaPrograma(programa) \notin t.columnas
    THEN Retorno(ErrorDict("Programa no encontrado"))
    ELSE IF nivel_geografico \notin t.columnas
    THEN Retorno(ErrorDict("Nivel geografico no encontrado"))
    ELSE
    LET Elegible(fila) == EsElegible(fila, programa)
        elegibles == FiltrarFilas(t, Elegible)
    IN  IF NumFilas(elegibles) = 0
        THEN Retorno(ErrorDict("No hay personas elegibles"))
        ELSE Retorno(
            [tipo_analisis |-> "cobertura_geografica", programa |-> programa,
             total_elegibles_analizados |-> NumFilas(elegibles),
             total_zonas_afectadas |-> Cardinality(ValoresDe(elegibles, nivel_geografico)),
             top_zonas |->
                [z \in ValoresDe(elegibles, nivel_geografico) |->
                    LET En(fila) == fila[nivel_geografico] = z
                    IN  [conteo |-> Cuenta(elegibles, En),
                         porcentaje |-> Tasa(Cuenta(elegibles, En), NumFilas(elegibles), 2)]]])

(***************************************************************************)
(* AnalizadorUnidimensional.analizar_flujo_completo, with `limite` above   *)
(* the number of places of a table of the model                            *)
(***************************************************************************)
FlujoCompleto(t, criterios, segmentacion_geografica) ==
    LET filtro == AplicarFiltros(t, criterios)
        segmento == Devuelto(filtro)
        total == NumFilas(segmento)
        metricas == [total_personas_segmento |-> total,
                     porcentaje_poblacion_total |-> Tasa(total, NumFilas(t), 2)]
        \* segmentacion_geografica or criterios.get('segmentacion_geografica')
        geo_col == IF DadoTexto(segmentacion_geografica) THEN segmentacion_geografica
                   ELSE IF "segmentacion_geografica" \in DOMAIN criterios
                        THEN <<criterios["segmentacion_geografica"]>>
                        ELSE <<>>
        conGeo == DadoTexto(geo_col) /\ Valor(geo_col) \in segmento.columnas
        geografico ==
            [columna_geografica |-> Valor(geo_col),
             total_ubicaciones |-> Cardinality(ValoresDe(segmento, Valor(geo_col))),
             conteos |-> [z \in ValoresDe(segmento, Valor(geo_col)) |->
                             LET En(fila) == fila[Valor(geo_col)] = z
                             IN  Cuenta(segmento, En)]]
    IN  [objetos |-> filtro.objetos,
         retorno |->
            IF total = 0
            THEN Retorno([flujo_analitico |-> "completo_corregido",
                          criterios_aplicados |-> criterios,
                          metricas_principales |-> metricas,
                          error |-> "No se encontraron personas con los criterios especificados"])
            ELSE IF conGeo
            THEN Retorno([flujo_analitico |-> "completo_corregido",
                          criterios_aplicados |-> criterios,
                          metricas_principales |-> metricas,
                          analisis_geografico |-> geografico,
                          perfil_demografico |-> PerfilSegmento(segmento)])
            ELSE Retorno([flujo_analitico |-> "completo_corregido",
                          criterios_aplicados |-> criterios,
                          metricas_principales |-> metricas,
                          perfil_demografico |-> PerfilSegmento(segmento)])]

(***************************************************************************)
(* AnalizadorUnidimensional.analizar_tabla_cruzada                         *)
(***************************************************************************)
\* _aplicar_filtros_tabla_cruzada(df, filtros): one selection per recognised key
FiltrosTablaCruzada(t, filtros) ==
    LET Aplica(k) == k \in DOMAIN filtros /\ Verdadero(k, filtros[k])
        PorCarencia(fila) ==
            \A k \in DOMAIN CarenciaMap : Aplica(k) => fila[CarenciaMap[k]] = "yes"
        PorEdad(fila) == Aplica("rango_edad") => EnRango(fila, filtros["rango_edad"])
        PorSexo(fila) == Aplica("sexo") => fila["sexo_persona"] = filtros["sexo"]
        PorPrograma(fila) ==
            (Aplica("programa_social") /\ ColumnaPrograma(filtros["programa_social"]) \in t.columnas)
                => EsElegible(fila, filtros["programa_social"])
        Todas(fila) == PorCarencia(fila) /\ PorEdad(fila) /\ PorSexo(fila) /\ PorPrograma(fila)
    IN  FiltrarFilas(t, Todas)

Bins == <<0, 18, 30, 45, 60, 75, 120>>
Etiquetas == <<"0-17 años", "18-29 años", "30-44 años", "45-59 años", "60-74 años", "75+ años">>
NaN == "NaN"

\* pd.cut(edad, bins=bins, labels=labels, right=False) on one age
EdadGrupo(edad) ==
    IF \E i \in 1..Len(Etiquetas) : Bins[i] <= edad /\ edad < Bins[i + 1]
    THEN Etiquetas[CHOOSE i \in 1..Len(Etiquetas) : Bins[i] <= edad /\ edad < Bins[i + 1]]
    ELSE NaN

\* _agrupar_edades(df) on the object `ref`: the store when it returns; the
\* DataFrame it returns is the object "derivada"
AgruparEdades(h, ref) ==
    LET h0 == TrasCopia(h, ref)
        r == Copia(ref)
        grupos == [i \in 1..NumFilas(h0[r]) |-> EdadGrupo(h0[r].filas[i]["edad_persona"])]
        \* df_modificado['edad_grupo'] = pd.cut(...)
        h1 == [h0 EXCEPT ![r] = AsignarColumna(h0[r], "edad_grupo", grupos)]
        \* drop('edad_persona') and rename(edad_grupo -> edad_persona): new objects
        cols == h1[r].columnas \ {"edad_grupo"}
        renombrada ==
            [columnas |-> cols,
             filas |-> [i \in 1..NumFilas(h1[r]) |->
                          [c \in cols |-> IF c = "edad_persona"
                                          THEN h1[r].filas[i]["edad_grupo"]
                                          ELSE h1[r].filas[i][c]]]]
    IN  [h1 EXCEPT !.derivada = renombrada]

ColumnasNumericas == {"id_hogar", "edad_persona"}

\* str(v) of a cell; `numerica` tells whether the column holds integers
Texto(numerica, v) == IF numerica THEN ToString(v) ELSE v

\* pd.crosstab(filas, columnas, margins=True, margins_name="Total") as the
\* dict of dicts tabla_conteos; a row with NaN in either variable is left out.
\* `numericas` are the columns of t that hold integers.
Crosstab(t, vf, vc, numericas) ==
    LET EsNaN(fila, v) == v \notin numericas /\ fila[v] = NaN
        Completa(fila) == ~EsNaN(fila, vf) /\ ~EsNaN(fila, vc)
        datos == FiltrarFilas(t, Completa)
        valsF == {Texto(vf \in numericas, v) : v \in ValoresDe(datos, vf)}
        valsC == {Texto(vc \in numericas, v) : v \in ValoresDe(datos, vc)}
        Celda(f, c) ==
            LET En(fila) == /\ (f = "Total" \/ Texto(vf \in numericas, fila[vf]) = f)
                            /\ (c = "Total" \/ Texto(vc \in numericas, fila[vc]) = c)
            IN  Cuenta(datos, En)
    IN  [f \in valsF \cup {"Total"} |-> [c \in valsC \cup {"Total"} |-> Celda(f, c)]]

\* the object store when the call returns, and what it returns
TablaCruzada(t, variable_filas, variable_columnas, filtros, agrupar_edad) ==
    LET h0 == TrasCopia(Objetos(t), "compartida")
        r0 == Copia("compartida")
        \* `if filtros:` then the filter works on its own copy and selections
        conFiltros == DOMAIN filtros # {}
        h1 == IF conFiltros
              THEN [TrasCopia(h0, r0) EXCEPT !.derivada = FiltrosTablaCruzada(h0[r0], filtros)]
              ELSE h0
        r1 == IF conFiltros THEN "derivada" ELSE r0
        agrupa == /\ (variable_filas = "edad_persona" \/ variable_columnas = "edad_persona")
                  /\ agrupar_edad
        h2 == IF agrupa /\ NumFilas(h1[r1]) > 0 THEN AgruparEdades(h1, r1) ELSE h1
        r2 == IF agrupa /\ NumFilas(h1[r1]) > 0 THEN "derivada" ELSE r1
        numericas == IF agrupa THEN ColumnasNumericas \ {"edad_persona"} ELSE ColumnasNumericas
        tabla == Crosstab(h2[r2], variable_filas, variable_columnas, numericas)
    IN  IF variable_filas \notin t.columnas
        THEN [objetos |-> Objetos(t),
              retorno |-> Retorno([error |-> "Variable no existe en el dataset",
                                   variable |-> variable_filas])]
        ELSE IF variable_columnas \notin t.columnas
        THEN [objetos |-> Objetos(t),
              retorno |-> Retorno([error |-> "Variable no existe en el dataset",
                                   variable |-> variable_columnas])]
        ELSE IF NumFilas(h1[r1]) = 0
        THEN [objetos |-> h1,
              retorno |-> Retorno(ErrorDict("No hay registros después de aplicar los filtros"))]
        ELSE IF tabla["Total"]["Total"] = 0
        \* an empty cross-tabulation has no 'Total' label: the lookup raises
        \* and `except Exception` returns the error
        THEN [objetos |-> h2, retorno |-> Retorno(ErrorDict("Error generando tabla cruzada"))]
        ELSE [objetos |-> h2,
              retorno |-> Retorno(
                [tipo_analisis |-> "tabla_cruzada",
                 filtros_aplicados |-> filtros,
                 tabla_conteos |-> tabla,
                 resumen |-> [total_registros |-> tabla["Total"]["Total"],
                              total_categorias_filas |-> Cardinality(DOMAIN tabla) - 1,
                              total_categorias_columnas |->
                                  Cardinality(DOMAIN tabla["Total"]) - 1],
                 estado |-> "éxito"])]

(***************************************************************************)
(* The calls of the model: arguments are drawn from these sets.            *)
(***************************************************************************)
\* an optional argument: <<>> (None) or one of the values
Opcional(S) == {<<>>} \cup {<<v>> : v \in S}

RangosModelo == {<<0, 12>>, <<65, 100>>}
UbicacionesModelo == {"centro"}
SexosModelo == {"Mujer", "H"}
CarenciasModelo == {"salud", "vivienda"}
\* a program every table has a column for, and one some tables have no column for
ProgramasPedidos == {"pension_adultos_mayores", "imss_bienestar"}

ClaveSi(k, arg) == IF Dado(arg) THEN {k} ELSE {}

\* a criteria dict: each key absent or with one of its values
CriteriosModelo ==
    { [k \in ClaveSi("rango_edad", r) \cup ClaveSi("sexo", s) \cup ClaveSi("ubicacion", u)
             \cup cs \cup ClaveSi("programa_social", p) |->
          CASE k = "rango_edad" -> Valor(r)
            [] k = "sexo" -> Valor(s)
            [] k = "ubicacion" -> Valor(u)
            [] k = "programa_social" -> Valor(p)
            [] OTHER -> k # "carencia_educacion"] :
        r \in Opcional(RangosModelo), s \in Opcional(SexosModelo),
        u \in Opcional({"centro"}), p \in Opcional(ProgramasPedidos),
        cs \in {{}, {"carencia_salud", "carencia_educacion"}} }

\* the criteria dicts with at most one key
CriteriosSimples == {c \in CriteriosModelo : Cardinality(DOMAIN c) <= 1}

ListasProgramas ==
    { <<"pension_adultos_mayores", "imss_bienestar">>,
      <<"imss_bienestar", "pension_adultos_mayores">>,
      <<"imss_bienestar">>, <<>> }

Llamada(op, args, r) == [op |-> op, args |-> args, tipo |-> r.tipo, valor |-> r.valor]

(***************************************************************************)
(* Actions: one per operation of the core.  A call is made when the caller *)
(* holds no pending result; Entregar is the caller taking the result.      *)
(***************************************************************************)
Construir(nargs) ==
    /\ resultado = Nada
    /\ resultado' = Llamada("AnalizadorProgramasSociales", [nargs |-> nargs],
                            ConstruirProgramas(df, nargs))
    /\ UNCHANGED <<df, traduccion, memo, messages, session_state>>

LlamarAplicarFiltros(criterios) ==
    /\ resultado = Nada
    /\ LET r == AplicarFiltros(df, criterios)
       IN  /\ resultado' = Llamada("aplicar_filtros", [criterios |-> criterios],
                                   Retorno(Devuelto(r)))
           /\ df' = r.objetos.compartida
    /\ UNCHANGED <<traduccion, memo, messages, session_state>>

LlamarPerfil(criterios) ==
    /\ resultado = Nada
    /\ resultado' = Llamada("generar_perfil_segmento", [criterios |-> criterios],
                            Retorno(PerfilSegmento(Devuelto(AplicarFiltros(df, criterios)))))
    /\ UNCHANGED <<df, traduccion, memo, messages, session_state>>

LlamarElegibilidad(programa, rango_edad, ubicacion, sexo, carencia) ==
    /\ resultado = Nada
    /\ resultado' = Llamada("analizar_elegibilidad_programa",
                            [programa |-> programa, rango_edad |-> rango_edad,
                             ubicacion |-> ubicacion, sexo |-> sexo, carencia |-> carencia],
                            ElegibilidadPrograma(df, programa, rango_edad, ubicacion,
                                                 sexo, carencia))
    /\ UNCHANGED <<df, traduccion, memo, messages, session_state>>

LlamarBrechas(programa, rango_edad, ubicacion) ==
    /\ resultado = Nada
    /\ resultado' = Llamada("analizar_brechas_programa_grupo",
                            [programa |-> programa, rango_edad |-> rango_edad,
                             ubicacion |-> ubicacion],
                            BrechasProgramaGrupo(df, programa, rango_edad, ubicacion))
    /\ UNCHANGED <<df, traduccion, memo, messages, session_state>>

LlamarCarencias(carencia, rango_edad, ubicacion) ==
    /\ resultado = Nada
    /\ resultado' = Llamada("identificar_carencias_sin_cobertura",
                            [carencia |-> carencia, rango_edad |-> rango_edad,
                             ubicacion |-> ubicacion],
                            CarenciasSinCobertura(df, carencia, rango_edad, ubicacion))
    /\ UNCHANGED <<df, traduccion, memo, messages, session_state>>

LlamarIntensidad(rango_edad, ubicacion) ==
    /\ resultado = Nada
    /\ LET r == IntensidadCarencias(df, rango_edad, ubicacion)
       IN  /\ resultado' = Llamada("analizar_intensidad_carencias",
                                   [rango_edad |-> rango_edad, ubicacion |-> ubicacion],
                                   r.retorno)
           /\ df' = r.objetos.compartida
    /\ UNCHANGED <<traduccion, memo, messages, session_state>>

LlamarElegibilidadMultiple(programas, rango_edad, ubicacion) ==
    /\ resultado = Nada
    /\ resultado' = Llamada("analizar_elegibilidad_multiple",
                            [programas |-> programas, rango_edad |-> rango_edad,
                             ubicacion |-> ubicacion],
                            ElegibilidadMultiple(df, programas, rango_edad, ubicacion))
    /\ UNCHANGED <<df, traduccion, memo, messages, session_state>>

LlamarBrechasMultiprograma(programas, rango_edad, ubicacion) ==
    /\ resultado = Nada
    /\ resultado' = Llamada("analizar_brechas_multiprograma",
                            [programas |-> programas, rango_edad |-> rango_edad,
                             ubicacion |-> ubicacion],
                            BrechasMultiprograma(df, programas, rango_edad, ubicacion))
    /\ UNCHANGED <<df, traduccion, memo, messages, session_state>>

LlamarCobertura(programa, nivel_geografico) ==
    /\ resultado = Nada
    /\ resultado' = Llamada("analizar_cobertura_geografica",
                            [programa |-> programa, nivel_geografico |-> nivel_geografico],
                            CoberturaGeografica(df, programa, nivel_geografico))
    /\ UNCHANGED <<df, traduccion, memo, messages, session_state>>

LlamarFlujoCompleto(criterios, segmentacion_geografica) ==
    /\ resultado = Nada
    /\ LET r == FlujoCompleto(df, criterios, segmentacion_geografica)
       IN  /\ resultado' = Llamada("analizar_flujo_completo",
                                   [criterios |-> criterios,
                                    segmentacion_geografica |-> segmentacion_geografica],
                                   r.retorno)
           /\ df' = r.objetos.compartida
    /\ UNCHANGED <<traduccion, memo, messages, session_state>>

LlamarTablaCruzada(variable_filas, variable_columnas, filtros, agrupar_edad) ==
    /\ resultado = Nada
    /\ LET r == TablaCruzada(df, variable_filas, variable_columnas, filtros, agrupar_edad)
       IN  /\ resultado' = Llamada("analizar_tabla_cruzada",
                                   [variable_filas |-> variable_filas,
                                    variable_columnas |-> variable_columnas,
                                    filtros |-> filtros, agrupar_edad |-> agrupar_edad],
                                   r.retorno)
           /\ df' = r.objetos.compartida
    /\ UNCHANGED <<traduccion, memo, messages, session_state>>

\* the caller takes the result; the core is idle again
Entregar ==
    /\ resultado # Nada
    /\ resultado' = Nada
    /\ UNCHANGED <<df, traduccion, memo, messages, session_state>>

VariablesCruce == {"sexo_persona", "edad_persona", ColApoyos}

Init ==
    /\ df \in Tablas
    /\ resultado = Nada
    /\ traduccion = Nada
    /\ memo = DictVacio
    /\ messages = HistoriaInicial
    /\ session_state = SinSesion

Next ==
    \/ \E n \in {1, 2} : Construir(n)
    \/ \E c \in CriteriosModelo : LlamarAplicarFiltros(c)
    \/ \E c \in CriteriosSimples : LlamarPerfil(c)
    \/ \E p \in ProgramasPedidos, r \in Opcional(RangosModelo),
          u \in Opcional(UbicacionesModelo), s \in Opcional({"Mujer"}),
          c \in Opcional(CarenciasModelo) : LlamarElegibilidad(p, r, u, s, c)
    \/ \E p \in ProgramasPedidos, r \in Opcional(RangosModelo),
          u \in Opcional(UbicacionesModelo) : LlamarBrechas(p, r, u)
    \/ \E c \in CarenciasModelo, r \in Opcional(RangosModelo),
          u \in Opcional(UbicacionesModelo) : LlamarCarencias(c, r, u)
    \/ \E r \in Opcional(RangosModelo), u \in Opcional(UbicacionesModelo) :
          LlamarIntensidad(r, u)
    \/ \E ps \in ListasProgramas, r \in Opcional(RangosModelo),
          u \in Opcional(UbicacionesModelo) : LlamarElegibilidadMultiple(ps, r, u)
    \/ \E ps \in ListasProgramas, r \in Opcional(RangosModelo),
          u \in Opcional(UbicacionesModelo) : LlamarBrechasMultiprograma(ps, r, u)
    \/ \E p \in ProgramasPedidos, n \in {"ageb", "colonia", "municipio"} :
          LlamarCobertura(p, n)
    \/ \E c \in CriteriosModelo : LlamarFlujoCompleto(c, <<>>)
    \/ \E c \in CriteriosSimples : LlamarFlujoCompleto(c, <<"colonia">>)
    \/ \E vf \in VariablesCruce, vc \in VariablesCruce,
          f \in CriteriosSimples,
          a \in BOOLEAN : LlamarTablaCruzada(vf, vc, f, a)
    \/ Entregar

Spec == Init /\ [][Next]_vars

(***************************************************************************)
(* AnalizadorUnidimensional._mapear_grupos_poblacionales: the dictionary   *)
(* of phrases, as the sequence of its items in the order of the literal.   *)
(***************************************************************************)
T(termino, mapeo) == [termino |-> termino, mapeo |-> mapeo]

MapeoGrupos ==
    <<
      T("niños", [tipo |-> "rango_edad", valor |-> <<0, 12>>]),
      T("niñas", [tipo |-> "rango_edad", valor |-> <<0, 12>>]),
      T("infantes", [tipo |-> "rango_edad", valor |-> <<0, 3>>]),
      T("bebés", [tipo |-> "rango_edad", valor |-> <<0, 3>>]),
      T("adolescentes", [tipo |-> "rango_edad", valor |-> <<13, 18>>]),
      T("jóvenes", [tipo |-> "rango_edad", valor |-> <<19, 30>>]),
      T("adultos", [tipo |-> "rango_edad", valor |-> <<31, 50>>]),
      T("adultos mayores", [tipo |-> "rango_edad", valor |-> <<65, 100>>]),
      T("mayores de 65", [tipo |-> "rango_edad", valor |-> <<65, 100>>]),
      T("tercera edad", [tipo |-> "rango_edad", valor |-> <<65, 100>>]),
      T("adulto mayor", [tipo |-> "rango_edad", valor |-> <<65, 100>>]),
      T("mujeres", [tipo |-> "sexo", valor |-> "Mujer"]),
      T("hombres", [tipo |-> "sexo", valor |-> "Hombre"]),
      T("mujer", [tipo |-> "sexo", valor |-> "Mujer"]),
      T("hombre", [tipo |-> "sexo", valor |-> "Hombre"]),
      T("carencia de salud",
          [tipo |-> "columna", valor |-> "presencia_carencia_salud_persona", filtro |-> "yes"]),
      T("carencia salud",
          [tipo |-> "columna", valor |-> "presencia_carencia_salud_persona", filtro |-> "yes"]),
      T("salud",
          [tipo |-> "columna", valor |-> "presencia_carencia_salud_persona", filtro |-> "yes"]),
      T("sin salud",
          [tipo |-> "columna", valor |-> "presencia_carencia_salud_persona", filtro |-> "yes"]),
      T("acceso a salud",
          [tipo |-> "columna", valor |-> "presencia_carencia_salud_persona", filtro |-> "yes"]),
      T("carencia de acceso a salud",
          [tipo |-> "columna", valor |-> "presencia_carencia_salud_persona", filtro |-> "yes"]),
      T("carencia acceso a salud",
          [tipo |-> "columna", valor |-> "presencia_carencia_salud_persona", filtro |-> "yes"]),
      T("sin cobertura de salud",
          [tipo |-> "columna", valor |-> "presencia_carencia_salud_persona", filtro |-> "yes"]),
      T("sin servicios médicos",
          [tipo |-> "columna", valor |-> "presencia_carencia_salud_persona", filtro |-> "yes"]),
      T("carencia de educación",
          [tipo |-> "columna", valor |-> "presencia_rezago_educativo_persona", filtro |-> "yes"]),
      T("carencia educación",
          [tipo |-> "columna", valor |-> "presencia_rezago_educativo_persona", filtro |-> "yes"]),
      T("rezago educativo",
          [tipo |-> "columna", valor |-> "presencia_rezago_educativo_persona", filtro |-> "yes"]),
      T("educación",
          [tipo |-> "columna", valor |-> "presencia_rezago_educativo_persona", filtro |-> "yes"]),
      T("sin educación",
          [tipo |-> "columna", valor |-> "presencia_rezago_educativo_persona", filtro |-> "yes"]),
      T("sin asistir a la escuela",
          [tipo |-> "columna", valor |-> "presencia_rezago_educativo_persona", filtro |-> "yes"]),
      T("no asiste a la escuela",
          [tipo |-> "columna", valor |-> "presencia_rezago_educativo_persona", filtro |-> "yes"]),
      T("inasistencia escolar",
          [tipo |-> "columna", valor |-> "presencia_rezago_educativo_persona", filtro |-> "yes"]),
      T("carencia de seguridad social",
          [tipo |-> "columna", valor |-> "presencia_carencia_seguridad_social_persona", filtro |-> "yes"]),
      T("carencia seguridad social",
          [tipo |-> "columna", valor |-> "presencia_carencia_seguridad_social_persona", filtro |-> "yes"]),
      T("seguridad social",
          [tipo |-> "columna", valor |-> "presencia_carencia_seguridad_social_persona", filtro |-> "yes"]),
      T("sin seguridad social",
          [tipo |-> "columna", valor |-> "presencia_carencia_seguridad_social_persona", filtro |-> "yes"]),
      T("carencia social",
          [tipo |-> "columna", valor |-> "presencia_carencia_seguridad_social_persona", filtro |-> "yes"]),
      T("sin afiliación",
          [tipo |-> "columna", valor |-> "presencia_carencia_seguridad_social_persona", filtro |-> "yes"]),
      T("sin acceso a seguridad social",
          [tipo |-> "columna", valor |-> "presencia_carencia_seguridad_social_persona", filtro |-> "yes"]),
      T("no afiliadas",
          [tipo |-> "columna", valor |-> "presencia_carencia_seguridad_social_persona", filtro |-> "yes"]),
      T("carencia máxima", [tipo |-> "multiple_carencias", valor |-> 3]),
      T("múltiples carencias", [tipo |-> "multiple_carencias", valor |-> 3]),
      T("carencia extrema", [tipo |-> "multiple_carencias", valor |-> 3]),
      T("vulnerabilidad extrema", [tipo |-> "multiple_carencias", valor |-> 3]),
      T("mayor carencia", [tipo |-> "multiple_carencias", valor |-> 3]),
      T("pobreza extrema", [tipo |-> "multiple_carencias", valor |-> 3]),
      T("más vulnerables", [tipo |-> "multiple_carencias", valor |-> 3]),
      T("edad", [tipo |-> "columna", valor |-> "edad_persona"]),
      T("años", [tipo |-> "columna", valor |-> "edad_persona"]),
      T("parentesco", [tipo |-> "columna", valor |-> "parentesco_persona"]),
      T("tipo de persona", [tipo |-> "columna", valor |-> "tipo_persona"]),
      T("apoyos sociales", [tipo |-> "columna", valor |-> "recibe_apoyos_sociales"]),
      T("recibe apoyos", [tipo |-> "columna", valor |-> "recibe_apoyos_sociales"]),
      T("beneficiario", [tipo |-> "columna", valor |-> "recibe_apoyos_sociales"]),
      T("pensión adultos mayores", [tipo |-> "programa", valor |-> "pension_adultos_mayores"]),
      T("pensión mujeres", [tipo |-> "programa", valor |-> "pension_mujeres_bienestar"]),
      T("mujeres bienestar", [tipo |-> "programa", valor |-> "pension_mujeres_bienestar"]),
      T("becas", [tipo |-> "programa", valor |-> "beca_rita_cetina"]),
      T("beca rita cetina", [tipo |-> "programa", valor |-> "beca_rita_cetina"]),
      T("benito juárez", [tipo |-> "programa", valor |-> "beca_benito_juarez"]),
      T("jóvenes escribiendo futuro",
          [tipo |-> "programa", valor |-> "jovenes_escribiendo_el_futuro"]),
      T("jóvenes construyendo futuro",
          [tipo |-> "programa", valor |-> "jovenes_construyendo_futuro"]),
      T("desde la cuna", [tipo |-> "programa", valor |-> "desde_la_cuna"]),
      T("mi beca para empezar", [tipo |-> "programa", valor |-> "mi_beca_para_empezar"]),
      T("imss bienestar", [tipo |-> "programa", valor |-> "imss_bienestar"]),
      T("inea", [tipo |-> "programa", valor |-> "inea"]),
      T("leche bienestar", [tipo |-> "programa", valor |-> "leche_bienestar"]),
      T("seguro desempleo", [tipo |-> "programa", valor |-> "seguro_desempleo_cdmx"]),
      T("ingreso ciudadano", [tipo |-> "programa", valor |-> "ingreso_ciudadano_universal"]),
      T("colonia", [tipo |-> "columna", valor |-> "colonia"]),
      T("colonias", [tipo |-> "columna", valor |-> "colonia"]),
      T("ageb", [tipo |-> "columna", valor |-> "ageb"]),
      T("agebs", [tipo |-> "columna", valor |-> "ageb"]),
      T("manzana", [tipo |-> "columna", valor |-> "manzana"]),
      T("manzanas", [tipo |-> "columna", valor |-> "manzana"]),
      T("ubicación", [tipo |-> "columna", valor |-> "ubicacion"]),
      T("zona", [tipo |-> "columna", valor |-> "ubicacion"]),
      T("localidad", [tipo |-> "columna", valor |-> "ubicacion"]),
      T("elegibles", [tipo |-> "concepto_elegibilidad", valor |-> "elegibilidad"]),
      T("elegible", [tipo |-> "concepto_elegibilidad", valor |-> "elegibilidad"]),
      T("pueden recibir", [tipo |-> "concepto_elegibilidad", valor |-> "elegibilidad"]),
      T("califican para", [tipo |-> "concepto_elegibilidad", valor |-> "elegibilidad"]),
      T("personas que pueden", [tipo |-> "concepto_elegibilidad", valor |-> "elegibilidad"])
    >>

\* mapeo_completo.keys(), in insertion order
Terminos == [i \in 1..Len(MapeoGrupos) |-> MapeoGrupos[i].termino]

\* mapeo_completo[termino]
MapeoDe(termino) ==
    MapeoGrupos[CHOOSE i \in 1..Len(MapeoGrupos) : MapeoGrupos[i].termino = termino].mapeo

\* len(termino)
Longitud(termino) == Len(termino)

\* the keys as the dict gives them, not sorted
TerminosSinOrdenar == Terminos

\* terminos_ordenados = sorted(mapeo_completo.keys(), key=len, reverse=True)
TerminosOrdenados == OrdenarDesc(Terminos, Longitud)

(***************************************************************************)
(* AnalizadorUnidimensional.traducir_consulta_natural                      *)
(***************************************************************************)
\* locals that outlive the call: the criteria of the previous call are still there
LocalesHeredados(previa) ==
    [criterios |-> IF "criterios_demograficos" \in DOMAIN previa
                   THEN previa.criterios_demograficos ELSE DictVacio,
     variables_detectadas |-> {}, terminos_mapeados |-> DictVacio]

\* the locals of the call when the loop starts: criterios = {},
\* variables_detectadas = [], terminos_mapeados = {}.  `previa` is what the
\* previous call returned, which the code keeps nowhere.
LocalesAlEntrar(previa) ==
    [criterios |-> DictVacio, variables_detectadas |-> {}, terminos_mapeados |-> DictVacio]

\* the terms the loop finds in texto (`if termino_natural in texto_consulta`),
\* in the order the loop meets them
Encontrados(orden, texto) == SelectSeq(orden, LAMBDA termino : Contiene(texto, termino))

\* the body of the loop for a term found in the text
Paso(e, termino) ==
    LET mapeo == MapeoDe(termino)
        e1 == [e EXCEPT !.terminos_mapeados = Poner(@, termino, mapeo)]
    IN  CASE mapeo.tipo = "rango_edad" ->
                IF "rango_edad" \notin DOMAIN e.criterios
                THEN [e1 EXCEPT
                        !.criterios = Poner(@, "rango_edad", mapeo.valor),
                        !.variables_detectadas =
                            @ \cup {"rango_edad_" \o ToString(mapeo.valor[1]) \o "_"
                                    \o ToString(mapeo.valor[2])}]
                ELSE e1
          [] mapeo.tipo = "sexo" ->
                [e1 EXCEPT !.criterios = Poner(@, "sexo", mapeo.valor),
                           !.variables_detectadas = @ \cup {"sexo_persona"}]
          [] mapeo.tipo = "columna" ->
                LET e2 == [e1 EXCEPT !.variables_detectadas = @ \cup {mapeo.valor}]
                IN  IF "filtro" \notin DOMAIN mapeo THEN e2
                    ELSE IF Contiene(termino, "salud")
                    THEN [e2 EXCEPT !.criterios = Poner(@, "carencia_salud", TRUE)]
                    ELSE IF \/ Contiene(termino, "educación")
                            \/ Contiene(termino, "educacion")
                            \/ Contiene(termino, "rezago")
                    THEN [e2 EXCEPT !.criterios = Poner(@, "carencia_educacion", TRUE)]
                    ELSE IF Contiene(termino, "seguridad_social") \/ Contiene(termino, "social")
                    THEN [e2 EXCEPT !.criterios = Poner(@, "carencia_seguridad_social", TRUE)]
                    ELSE e2
          [] mapeo.tipo = "programa" ->
                [e1 EXCEPT !.criterios = Poner(@, "programa_social", mapeo.valor),
                           !.variables_detectadas = @ \cup {"es_elegible_" \o mapeo.valor}]
          [] OTHER -> e1

RECURSIVE Bucle(_, _, _)
\* the locals after the loop has met the first i of the terms found in the text
Bucle(encontrados, i, inicial) ==
    IF i = 0 THEN inicial
    ELSE Sea(Bucle(encontrados, i - 1, inicial), LAMBDA e : Paso(e, encontrados[i]))

\* any(p in texto for p in palabras)
Alguna(texto, palabras) == \E p \in palabras : Contiene(texto, p)

\* the segmentation and ordering criteria the text adds after the loop
TrasBucle(criterios, texto) ==
    LET conGeo ==
            IF Alguna(texto, {"por ageb", "por colonia", "por ubicación", "por zona"})
            THEN IF Contiene(texto, "ageb")
                 THEN Poner(criterios, "segmentacion_geografica", "ageb")
                 ELSE IF Contiene(texto, "colonia")
                 THEN Poner(criterios, "segmentacion_geografica", "colonia")
                 ELSE IF Contiene(texto, "ubicación") \/ Contiene(texto, "zona")
                 THEN Poner(criterios, "segmentacion_geografica", "ubicacion")
                 ELSE criterios
            ELSE criterios
    IN  IF Alguna(texto, {"mayor", "más", "top", "principal"})
        THEN Poner(conGeo, "ordenamiento", "descendente")
        ELSE IF Alguna(texto, {"menor", "menos"})
        THEN Poner(conGeo, "ordenamiento", "ascendente")
        ELSE conGeo

\* the dict the call returns for a str consulta, after a call that returned `previa`
TraducirConsulta(consulta, previa) ==
    Sea(Lower(consulta), LAMBDA texto_consulta :
    Sea(Encontrados(TerminosOrdenados, texto_consulta), LAMBDA encontrados :
    Sea(Bucle(encontrados, Len(encontrados), LocalesAlEntrar(previa)), LAMBDA e :
    Sea(TrasBucle(e.criterios, texto_consulta), LAMBDA criterios :
        [consulta_original |-> consulta,
         criterios_demograficos |-> criterios,
         variables_detectadas |-> e.variables_detectadas,
         terminos_mapeados |-> e.terminos_mapeados,
         estado |-> IF DOMAIN criterios # {} THEN "éxito"
                    ELSE "sin_criterios_detectados"]))))

(***************************************************************************)
(* The queries of the model.                                               *)
(***************************************************************************)
Fragmentos ==
    { "adultos mayores", "adolescentes", "tercera edad", "Niños",
      "hombres", "mujer", "becas", "pensión mujeres", "sin pensión",
      "sin afiliación", "por colonia", "menos" }

RECURSIVE Unir(_)
\* ' '.join(frases)
Unir(frases) ==
    IF Len(frases) = 0 THEN ""
    ELSE IF Len(frases) = 1 THEN frases[1]
    ELSE frases[1] \o " " \o Unir(Tail(frases))

\* every phrase of the dictionary alone, and the fragments joined by spaces
Consultas ==
    {Terminos[i] : i \in 1..Len(Terminos)}
        \cup {Unir(fs) : fs \in SecuenciasHasta(Fragmentos, MaxFrases)}

\* the queries translated again and again
ConsultasRepetidas ==
    { "adultos mayores sin pensión", "Mujeres", "becas por colonia", "niños",
      "¿cuántos hay?" }

\* a query translated for the first time, or again
Traducir(consulta) ==
    /\ consulta \in DOMAIN memo => memo[consulta].veces < MaxVeces
    /\ traduccion' = TraducirConsulta(consulta, traduccion)
    /\ memo' = IF consulta \in DOMAIN memo
               THEN [memo EXCEPT ![consulta].veces = @ + 1]
               ELSE Poner(memo, consulta, [primera |-> traduccion', veces |-> 1])
    /\ UNCHANGED <<df, resultado, messages, session_state>>

\* the table the translator's owner was built on: the translator never reads it
InitTraduccion ==
    /\ df = [columnas |-> ColumnasBase, filas |-> <<>>]
    /\ resultado = Nada
    /\ traduccion = Nada
    /\ memo = DictVacio
    /\ messages = HistoriaInicial
    /\ session_state = SinSesion

\* one translation, of any query of the model
NextTraduccion == \E consulta \in Consultas : DOMAIN memo = {} /\ Traducir(consulta)

SpecTraduccion == InitTraduccion /\ [][NextTraduccion]_vars

\* translations one after another
NextRepetida == \E consulta \in ConsultasRepetidas : Traducir(consulta)

SpecRepetida == InitTraduccion /\ [][NextRepetida]_vars

(***************************************************************************)
(* Properties.                                                             *)
(***************************************************************************)
\* the call the caller is looking at is a call of `op`
Llamo(op) == resultado.op = op

\* a result that is a dict without the 'error' key
SinClaveError(r) == r.tipo = "retorno" /\ "error" \notin DOMAIN r.valor

\* the table has a column for the program
TieneColumna(t, programa) == ColumnaPrograma(programa) \in t.columnas

\* the row satisfies every criterion the criteria set asks for
Satisface(fila, criterios) ==
    /\ Pide(criterios, "rango_edad") => EnRango(fila, criterios["rango_edad"])
    /\ Pide(criterios, "sexo") => fila["sexo_persona"] = SexoValor(criterios["sexo"])
    /\ Pide(criterios, "ubicacion") => EnUbicacion(fila, criterios["ubicacion"])
    /\ \A k \in DOMAIN CarenciaMap : Pide(criterios, k) => fila[CarenciaMap[k]] = "yes"
    /\ Pide(criterios, "programa_social") =>
          /\ ColumnaPrograma(criterios["programa_social"]) \in DOMAIN fila
          /\ fila[ColumnaPrograma(criterios["programa_social"])] = "yes"

\* C1: aplicar_filtros returns exactly the rows of the table that satisfy
\* every criterion of the criteria set (age range, sex, location, deprivation
\* flags and program, combined with AND), in the table's order; with the
\* empty criteria set these are all the rows.
FiltroExacto ==
    Llamo("aplicar_filtros") =>
        /\ resultado.tipo = "retorno"
        /\ resultado.valor.filas =
              SelectSeq(df.filas, LAMBDA fila : Satisface(fila, resultado.args.criterios))

\* C2: no call of a core operation, whether it returns a result, an error
\* or raises, changes the shared table: every step leaves its rows, columns
\* and values as they were.
TablaIntacta == [][df' = df]_vars

\* an intensity analysis and a grouped cross-tabulation have returned a result
\* computed on a table with rows
TestigoTablaIntacta ==
    /\ NumFilas(df) > 0
    /\ \/ Llamo("analizar_intensidad_carencias") /\ SinClaveError(resultado)
       \/ /\ Llamo("analizar_tabla_cruzada") /\ SinClaveError(resultado)
          /\ resultado.args.agrupar_edad
          /\ resultado.args.variable_filas = "edad_persona"

\* the programs the table has an eligibility column for
Catalogo(t) == {p \in ProgramasModelo : TieneColumna(t, p)}

\* C3: AnalizadorProgramasSociales(df), the call with the table alone, returns
\* an analyzer whose programas_nombres are exactly the names p for which the
\* table has a column es_elegible_p.
ConstruibleDesdeLaTabla ==
    (Llamo("AnalizadorProgramasSociales") /\ resultado.args.nargs = 1) =>
        /\ resultado.tipo = "retorno"
        /\ resultado.valor.programas_nombres = Catalogo(df)

\* C4: analizar_elegibilidad_programa for a program without eligibility column
\* in the table does not raise: it returns a dict with the 'error' key that
\* lists all the valid program names.
ProgramaDesconocidoDevuelveCatalogo ==
    (Llamo("analizar_elegibilidad_programa") /\ ~TieneColumna(df, resultado.args.programa)) =>
        /\ resultado.tipo = "retorno"
        /\ "error" \in DOMAIN resultado.valor
        /\ "programas_disponibles" \in DOMAIN resultado.valor
        /\ resultado.valor.programas_disponibles = Catalogo(df)

\* a result that reports an error together with the valid alternatives
ErrorConAlternativas(r) ==
    /\ r.tipo = "retorno"
    /\ "error" \in DOMAIN r.valor
    /\ DOMAIN r.valor \cap {"programas_disponibles", "columnas_reales", "columnas_disponibles",
                            "variables_disponibles", "niveles_disponibles"} # {}

\* the call the caller is looking at names a program or column the table lacks
NombraDesconocido ==
    \/ /\ Llamo("aplicar_filtros")
       /\ Pide(resultado.args.criterios, "programa_social")
       /\ ~TieneColumna(df, resultado.args.criterios["programa_social"])
    \/ /\ Llamo("analizar_tabla_cruzada")
       /\ \/ resultado.args.variable_filas \notin df.columnas
          \/ resultado.args.variable_columnas \notin df.columnas
          \/ /\ Pide(resultado.args.filtros, "programa_social")
             /\ ~TieneColumna(df, resultado.args.filtros["programa_social"])
    \/ /\ Llamo("analizar_brechas_programa_grupo")
       /\ ~TieneColumna(df, resultado.args.programa)
    \/ /\ Llamo("analizar_cobertura_geografica")
       /\ \/ ~TieneColumna(df, resultado.args.programa)
          \/ resultado.args.nivel_geografico \notin df.columnas
    \/ /\ Llamo("analizar_elegibilidad_multiple") \/ Llamo("analizar_brechas_multiprograma")
       /\ \E p \in Elementos(resultado.args.programas) : ~TieneColumna(df, p)
    \/ /\ Llamo("identificar_carencias_sin_cobertura")
       /\ \E p \in Elementos(ProgramasPorCarencia(resultado.args.carencia)) :
             ~TieneColumna(df, p)

\* C5: every core operation called with a program name or a column the table
\* does not have reports an error to its caller together with the valid
\* alternatives; none ignores the unknown name and goes on.
NombreDesconocidoReportado == NombraDesconocido => ErrorConAlternativas(resultado)

\* the filters of the call the caller is looking at leave no row of a table
\* that has rows, and every name the call uses exists
FiltrosDejanCero ==
    /\ NumFilas(df) > 0
    /\ \/ /\ Llamo("analizar_elegibilidad_programa")
          /\ TieneColumna(df, resultado.args.programa)
          /\ NumFilas(FiltrosBasicos(df, resultado.args.rango_edad, resultado.args.ubicacion,
                                     resultado.args.sexo, resultado.args.carencia)) = 0
       \/ /\ Llamo("analizar_flujo_completo")
          /\ Pide(resultado.args.criterios, "programa_social") =>
                TieneColumna(df, resultado.args.criterios["programa_social"])
          /\ \A fila \in Elementos(df.filas) : ~Satisface(fila, resultado.args.criterios)
       \/ /\ Llamo("analizar_tabla_cruzada")
          /\ ~NombraDesconocido
          /\ NumFilas(FiltrosTablaCruzada(df, resultado.args.filtros)) = 0

\* C6: when the filters leave zero rows, analizar_elegibilidad_programa,
\* analizar_flujo_completo and analizar_tabla_cruzada return a result without
\* the 'error' key.
ResultadoVacioValido == FiltrosDejanCero => SinClaveError(resultado)

\* a translation has been made
Traducida == "consulta_original" \in DOMAIN traduccion

\* C7: the translation of 'adultos mayores sin pensión' has the age range
\* [65, 100] and the program pension_adultos_mayores in its criteria.
ConsultaAdultosMayores ==
    (Traducida /\ traduccion.consulta_original = "adultos mayores sin pensión") =>
        /\ "rango_edad" \in DOMAIN traduccion.criterios_demograficos
        /\ traduccion.criterios_demograficos["rango_edad"] = <<65, 100>>
        /\ "programa_social" \in DOMAIN traduccion.criterios_demograficos
        /\ traduccion.criterios_demograficos["programa_social"] = "pension_adultos_mayores"

\* the dictionary phrases of a category that occur in the lower-cased query
FrasesPresentes(tipo, consulta) ==
    {t \in Elementos(Terminos) : MapeoDe(t).tipo = tipo /\ Contiene(Lower(consulta), t)}

\* the longest of the phrases, the one the dictionary gives first among equals
PrimeraMasLarga(frases) ==
    LET Lugar(t) == CHOOSE i \in 1..Len(Terminos) : Terminos[i] = t
    IN  CHOOSE t \in frases :
            \A u \in frases \ {t} :
                Len(t) > Len(u) \/ (Len(t) = Len(u) /\ Lugar(t) < Lugar(u))

\* C8: when dictionary phrases for sex, or for a program, occur in the query,
\* the criterion has the value of the longest of them; a shorter phrase met
\* later does not replace it.
PrimeraCoincidenciaGana ==
    Traducida =>
        \A cat \in {<<"sexo", "sexo">>, <<"programa", "programa_social">>} :
            LET frases == FrasesPresentes(cat[1], traduccion.consulta_original)
            IN  frases # {} =>
                    /\ cat[2] \in DOMAIN traduccion.criterios_demograficos
                    /\ traduccion.criterios_demograficos[cat[2]] =
                          MapeoDe(PrimeraMasLarga(frases)).valor

\* the phrases of the set that no other phrase of the set is longer than
MasLargas(frases) == {t \in frases : \A u \in frases : Len(u) <= Len(t)}

\* C9: the age range of the criteria is the range of a longest dictionary age
\* phrase that occurs in the query (the first of them in the dictionary when
\* two are equally long); it is the range of one phrase, never a merge, and
\* without age phrase in the query the criteria have no age range.
RangoDeLaFraseMasLarga ==
    Traducida =>
        LET frases == FrasesPresentes("rango_edad", traduccion.consulta_original)
            criterios == traduccion.criterios_demograficos
        IN  IF frases = {} THEN "rango_edad" \notin DOMAIN criterios
            ELSE /\ "rango_edad" \in DOMAIN criterios
                 /\ criterios["rango_edad"] = MapeoDe(PrimeraMasLarga(frases)).valor
                 /\ PrimeraMasLarga(frases) \in MasLargas(frases)

\* a query with 'adultos mayores' and the shorter 'adultos', whose ranges
\* differ, has been translated to [65, 100]
TestigoRangoDeLaFraseMasLarga ==
    /\ Traducida
    /\ {"adultos", "adultos mayores"} \subseteq
           FrasesPresentes("rango_edad", traduccion.consulta_original)
    /\ traduccion.criterios_demograficos["rango_edad"] = <<65, 100>>
    /\ MapeoDe("adultos").valor = <<31, 50>>

Obtener(d, clave, defecto) == IF clave \in DOMAIN d THEN d[clave] ELSE defecto

\* no identifier is accepted unless it is a column
NingunConcepto(var) == FALSE

\* var.startswith('rango_edad_') or "multiple_carencias" in var: the
\* identifiers that are accepted although they are not columns
EsConcepto(var) == EmpiezaCon(var, "rango_edad_") \/ Contiene(var, "multiple_carencias")

\* the dict the call returns for a dict traduccion
ValidarVariablesMejorado(t, trad) ==
    LET criterios == Obtener(trad, "criterios_demograficos", DictVacio)
        variables == Obtener(trad, "variables_detectadas", {})
        validas == {var \in variables : var \in t.columnas}
        invalidas == {var \in variables : var \notin t.columnas /\ ~EsConcepto(var)}
        criterios_validos == Cardinality(DOMAIN criterios) > 0
    IN  [criterios |-> criterios,
         variables_validas |-> validas,
         variables_invalidas |-> invalidas,
         criterios_validos |-> criterios_validos,
         columnas_validas |-> invalidas = {},
         ejecutable |-> criterios_validos /\ invalidas = {}]

\* identifiers a translation can carry: columns every table has, columns
\* only some tables have, the two kinds of markers, and names of no column
IdentificadoresModelo ==
    { "sexo_persona", ColApoyos, ColumnaPrograma("imss_bienestar"),
      "rango_edad_65_100", "rango_edad", "multiple_carencias_3", "ingreso_mensual" }

\* the translations handed to the validation
TraduccionesModelo ==
    { [criterios_demograficos |-> c, variables_detectadas |-> vs] :
        c \in {DictVacio, [sexo |-> "Mujer"], [rango_edad |-> <<65, 100>>, sexo |-> "Hombre"]},
        vs \in SUBSET IdentificadoresModelo }
    \cup { DictVacio, [criterios_demograficos |-> [sexo |-> "Mujer"]],
           [variables_detectadas |-> {"ingreso_mensual"}] }

LlamarValidar(trad) ==
    /\ resultado = Nada
    /\ resultado' = Llamada("validar_variables_mejorado", [traduccion |-> trad],
                            Retorno(ValidarVariablesMejorado(df, trad)))
    /\ UNCHANGED <<df, traduccion, memo, messages, session_state>>


(***************************************************************************)
(* AgenteAnaliticoLLM.procesar_consulta_mejorado.  An answer is modelled   *)
(* by the method that writes it and by the values it is written from.      *)
(***************************************************************************)
\* the keys of patrones_ambiguos; each pattern's 'termino' is its key
PatronesAmbiguos ==
    {"pobreza", "vulnerable", "prioritario", "cobertura", "beneficiario", "acceso"}

\* detectar_ambiguedades(consulta)['ambiguedades'], by the terms found
DetectarAmbiguedades(consulta) ==
    Sea(Lower(consulta), LAMBDA texto : {p \in PatronesAmbiguos : Contiene(texto, p)})

Respuesta(genera, detalle) == Retorno([genera |-> genera, detalle |-> detalle])

\* the answer reads validacion['invalidas'] and validacion['validas']
RespuestaVariablesInvalidas(validacion, consulta) ==
    IF "invalidas" \notin DOMAIN validacion THEN Excepcion("KeyError", "invalidas")
    ELSE IF "validas" \notin DOMAIN validacion THEN Excepcion("KeyError", "validas")
    ELSE Respuesta("_generar_respuesta_variables_invalidas",
                   [invalidas |-> validacion.invalidas, validas |-> validacion.validas])

\* mensajes_error.get(type(error).__name__, ...), and the answer built on it
RespuestaErrorAmigable(error, consulta) ==
    Respuesta("_generar_respuesta_error_amigable",
              [mensaje |-> CASE error.valor.clase = "JSONDecodeError" -> "Error de datos"
                             [] error.valor.clase = "KeyError" -> "Error técnico"
                             [] error.valor.clase = "ConnectionError" -> "Error de conexión"
                             [] error.valor.clase = "TimeoutError" -> "Tiempo de espera"
                             [] error.valor.clase = "AttributeError" -> "Error del sistema"
                             [] OTHER -> "Ocurrió un error inesperado",
               consulta |-> consulta])

\* what the body of the try block gives: an answer or an exception, and the
\* translation when the body got as far as making one
CuerpoProcesarConsulta(t, consulta_usuario, previa) ==
    IF DetectarAmbiguedades(consulta_usuario) # {}
    THEN [retorno |-> Respuesta("generar_respuesta_clarificacion",
                                DetectarAmbiguedades(consulta_usuario)),
          traduccion |-> previa]
    ELSE Sea(TraducirConsulta(consulta_usuario, previa), LAMBDA trad :
         Sea(ValidarVariablesMejorado(t, trad), LAMBDA validacion :
            [retorno |->
                IF trad.estado = "sin_criterios_detectados"
                THEN Respuesta("_generar_sugerencias_contextuales_mejoradas",
                               consulta_usuario)
                ELSE IF ~validacion.ejecutable
                THEN IF validacion.variables_invalidas # {}
                     THEN RespuestaVariablesInvalidas(validacion, consulta_usuario)
                     ELSE Respuesta("_generar_sugerencias_contextuales_mejoradas",
                                    consulta_usuario)
                ELSE Respuesta("procesar_consulta", consulta_usuario),
             traduccion |-> trad]))

\* the whole method: `except Exception` turns an exception into an answer
ProcesarConsultaMejorado(t, consulta_usuario, previa) ==
    Sea(CuerpoProcesarConsulta(t, consulta_usuario, previa), LAMBDA c :
        [retorno |-> IF c.retorno.tipo = "excepcion"
                     THEN RespuestaErrorAmigable(c.retorno, consulta_usuario)
                     ELSE c.retorno,
         traduccion |-> c.traduccion])

\* what users ask
ConsultasUsuario ==
    { "adultos mayores sin pensión", "mujeres con becas", "¿cuántos hay?",
      "cobertura de salud", "niños por colonia", "hombres", "personas vulnerables",
      "mujeres sin seguro médico", "adultos mayores", "sin afiliación" }

LlamarProcesarConsulta(consulta_usuario) ==
    /\ resultado = Nada
    /\ LET r == ProcesarConsultaMejorado(df, consulta_usuario, traduccion)
       IN  /\ resultado' = Llamada("procesar_consulta_mejorado",
                                   [consulta_usuario |-> consulta_usuario], r.retorno)
           /\ traduccion' = r.traduccion
    /\ UNCHANGED <<df, memo, messages, session_state>>

\* the tables a conversation runs on: the validation reads df.columns only
TablasConsulta == {t \in Tablas : NumFilas(t) <= 1}

InitConsulta ==
    /\ df \in TablasConsulta
    /\ resultado = Nada
    /\ traduccion = Nada
    /\ memo = DictVacio
    /\ messages = HistoriaInicial
    /\ session_state = SinSesion

NextConsulta ==
    \/ \E trad \in TraduccionesModelo : LlamarValidar(trad)
    \/ \E consulta \in ConsultasUsuario : LlamarProcesarConsulta(consulta)
    \/ Entregar

SpecConsulta == InitConsulta /\ [][NextConsulta]_vars


(***************************************************************************)
(* Properties of the validation and of the answers.                        *)
(***************************************************************************)
\* a field identifier the validation must not count as unrecognized
Reconocido(t, var) ==
    \/ var \in t.columnas
    \/ EmpiezaCon(var, "rango_edad_")
    \/ Contiene(var, "multiple_carencias")

\* C11: validar_variables_mejorado reports the query executable exactly when
\* the criteria set has at least one criterion and every detected identifier
\* is a column of the table, an age-range marker or a multi-deprivation marker.
EjecutableSiYSoloSi ==
    Llamo("validar_variables_mejorado") =>
        LET trad == resultado.args.traduccion
            criterios == Obtener(trad, "criterios_demograficos", DictVacio)
            variables == Obtener(trad, "variables_detectadas", {})
        IN  /\ resultado.tipo = "retorno"
            /\ resultado.valor.ejecutable
                  <=> (DOMAIN criterios # {} /\ \A var \in variables : Reconocido(df, var))

\* a translation with criteria, a column, an age-range marker and a
\* multi-deprivation marker was found executable
TestigoEjecutableSiYSoloSi ==
    /\ Llamo("validar_variables_mejorado")
    /\ resultado.valor.ejecutable
    /\ {"sexo_persona", "rango_edad_65_100", "multiple_carencias_3"}
           \subseteq Obtener(resultado.args.traduccion, "variables_detectadas", {})

\* C12: when the translation of a query is not executable, the answer is the
\* invalid-variables guidance if unrecognized fields were detected and the
\* no-criteria suggestions otherwise.
RespuestaSegunFallo ==
    (Llamo("procesar_consulta_mejorado")
        /\ DetectarAmbiguedades(resultado.args.consulta_usuario) = {}) =>
        LET validacion == ValidarVariablesMejorado(df, traduccion)
        IN  ~validacion.ejecutable =>
                /\ resultado.tipo = "retorno"
                /\ resultado.valor.genera =
                      IF validacion.variables_invalidas # {}
                      THEN "_generar_respuesta_variables_invalidas"
                      ELSE "_generar_sugerencias_contextuales_mejoradas"


\* C13: analizar_brechas_programa_grupo returns an error whenever the table
\* has no 'recibe_apoyos_sociales' column, for every program the table has a
\* column for and every age and location filter.
ErrorSinColumnaApoyos ==
    (Llamo("analizar_brechas_programa_grupo")
        /\ ColApoyos \notin df.columnas
        /\ TieneColumna(df, resultado.args.programa)) => EsError(resultado)


\* the levels of the intensity distribution
NivelesIntensidad == {"sin_carencias", "una_carencia", "dos_carencias", "tres_carencias"}

RECURSIVE Suma(_, _)
\* the sum of f over the set S
Suma(f, S) == IF S = {} THEN 0 ELSE LET x == CHOOSE x \in S : TRUE IN f[x] + Suma(f, S \ {x})

\* the rows of the table that pass the age and location filter of the call
SubconjuntoPedido ==
    LET Pasa(fila) ==
            /\ DadoRango(resultado.args.rango_edad)
                  => EnRango(fila, Valor(resultado.args.rango_edad))
            /\ DadoTexto(resultado.args.ubicacion)
                  => EnUbicacion(fila, Valor(resultado.args.ubicacion))
    IN  Cuenta(df, Pasa)

\* the counts of the four levels add up to the filtered subset
CantidadesSumanSubconjunto ==
    Suma([n \in NivelesIntensidad |-> resultado.valor.distribucion_intensidad[n].cantidad],
         NivelesIntensidad) = SubconjuntoPedido

\* the sum of the four percentages, in hundredths of a percent
SumaPorcentajes ==
    Suma([n \in NivelesIntensidad |-> resultado.valor.distribucion_intensidad[n].porcentaje],
         NivelesIntensidad)

\* within four half-units of the second decimal of 100%
CercaDeCien(centesimas) == centesimas >= 10000 - 2 /\ centesimas <= 10000 + 2

\* C14 as stated: for every intensity run the four counts sum to the number
\* of rows of the filtered subset and the four percentages sum to 100%
\* within rounding tolerance.
IntensidadSumaCien ==
    Llamo("analizar_intensidad_carencias") =>
        /\ SinClaveError(resultado)
        /\ CantidadesSumanSubconjunto
        /\ CercaDeCien(SumaPorcentajes)

\* C14: for every intensity run the four counts sum to the number of rows of
\* the filtered subset; the four percentages sum to 100% within rounding
\* tolerance when the subset has rows, and are all 0.0 when it has none.
IntensidadSumaCienSiHayFilas ==
    Llamo("analizar_intensidad_carencias") =>
        /\ SinClaveError(resultado)
        /\ CantidadesSumanSubconjunto
        /\ IF SubconjuntoPedido > 0 THEN CercaDeCien(SumaPorcentajes)
           ELSE \A n \in NivelesIntensidad :
                    resultado.valor.distribucion_intensidad[n].porcentaje = 0

\* a filtered run over a subset smaller than the table whose rows are at
\* two different levels
TestigoIntensidadSumaCien ==
    /\ Llamo("analizar_intensidad_carencias")
    /\ DadoRango(resultado.args.rango_edad)
    /\ SubconjuntoPedido > 0
    /\ SubconjuntoPedido < NumFilas(df)
    /\ resultado.valor.distribucion_intensidad.tres_carencias.cantidad > 0


\* the call raised a ZeroDivisionError
ErrorDeDivision == resultado.tipo = "excepcion" /\ resultado.valor.clase = "ZeroDivisionError"

\* intensity: the subset is empty, so the denominator of the four percentages is zero
IntensidadSinFilas == Llamo("analizar_intensidad_carencias") /\ SubconjuntoPedido = 0

\* uncovered deprivations: nobody with the deprivation passes the filter, so
\* the denominator of tasa_brecha is zero
CarenciasSinFilas ==
    /\ Llamo("identificar_carencias_sin_cobertura")
    /\ SinClaveError(resultado)
    /\ resultado.valor.metricas_principales.total_personas_con_carencia = 0

\* eligibility: the filtered population has rows and none is eligible, so the
\* denominator of the percentages of the deprivations among the eligible is zero
ElegibilidadSinElegibles ==
    /\ Llamo("analizar_elegibilidad_programa")
    /\ TieneColumna(df, resultado.args.programa)
    /\ LET filtrado == FiltrosBasicos(df, resultado.args.rango_edad, resultado.args.ubicacion,
                                      resultado.args.sexo, resultado.args.carencia)
       IN  /\ NumFilas(filtrado) > 0
           /\ \A i \in 1..NumFilas(filtrado) :
                  ~EsElegible(filtrado.filas[i], resultado.args.programa)

\* C15: no analysis operation raises a division error, and each rate whose
\* denominator is zero is reported as 0.0.
TasaCeroSinDenominador ==
    /\ resultado # Nada => ~ErrorDeDivision
    /\ IntensidadSinFilas =>
          \A n \in NivelesIntensidad :
              resultado.valor.distribucion_intensidad[n].porcentaje = 0
    /\ CarenciasSinFilas => resultado.valor.metricas_principales.tasa_brecha = 0
    /\ ElegibilidadSinElegibles =>
          /\ SinClaveError(resultado)
          /\ \A c \in DOMAIN resultado.valor.seccion_3_carencias_detectadas :
                 resultado.valor.seccion_3_carencias_detectadas[c].porcentaje = 0


\* the rows a cross-tabulation call counts: the table, filtered when the
\* call has filters
FilasCruzadas ==
    IF DOMAIN resultado.args.filtros # {}
    THEN FiltrosTablaCruzada(df, resultado.args.filtros)
    ELSE df

\* a cross-tabulation of binned ages (rows) against another field, on a
\* table that has both fields and rows that pass the filters
CruceDeEdadesAgrupadas ==
    /\ Llamo("analizar_tabla_cruzada")
    /\ resultado.args.agrupar_edad
    /\ resultado.args.variable_filas = "edad_persona"
    /\ resultado.args.variable_columnas \in df.columnas \ {"edad_persona"}
    /\ NumFilas(FilasCruzadas) > 0

\* the age is in the i-th of the bins [0,18), [18,30), [30,45), [45,60),
\* [60,75), [75,120]
EnBinDeclarado(edad, i) ==
    /\ Bins[i] <= edad
    /\ IF i = Len(Etiquetas) THEN edad <= Bins[i + 1] ELSE edad < Bins[i + 1]

\* C16: when age binning is applied in a cross-tabulation, every age from 0
\* to 120 is counted in exactly one of the bins [0,18), [18,30), [30,45),
\* [45,60), [60,75), [75,120], age 120 in the last one.
EdadEnUnSoloBin ==
    CruceDeEdadesAgrupadas =>
        /\ SinClaveError(resultado)
        /\ \A i \in 1..Len(Etiquetas) :
              LET EnBin(fila) == EnBinDeclarado(fila["edad_persona"], i)
              IN  Cuenta(FilasCruzadas, EnBin) > 0 =>
                      /\ Etiquetas[i] \in DOMAIN resultado.valor.tabla_conteos
                      /\ resultado.valor.tabla_conteos[Etiquetas[i]]["Total"]
                             = Cuenta(FilasCruzadas, EnBin)


\* a cross-tabulation call on a table that has both fields and rows that
\* pass the filters
CruceConFilas ==
    /\ Llamo("analizar_tabla_cruzada")
    /\ {resultado.args.variable_filas, resultado.args.variable_columnas} \subseteq df.columnas
    /\ NumFilas(FilasCruzadas) > 0

\* the ages of the call are binned
EdadesAgrupadas ==
    /\ resultado.args.agrupar_edad
    /\ "edad_persona" \in {resultado.args.variable_filas, resultado.args.variable_columnas}

\* the label under which a row is counted for the field v: its bin for a
\* binned age, else the field's value as text
ValorCruzado(fila, v) ==
    IF EdadesAgrupadas /\ v = "edad_persona"
    THEN Etiquetas[CHOOSE i \in 1..Len(Etiquetas) : EnBinDeclarado(fila[v], i)]
    ELSE Texto(v \in ColumnasNumericas, fila[v])

\* the labels of the field v over the counted rows
ValoresCruzados(v) ==
    {ValorCruzado(FilasCruzadas.filas[k], v) : k \in 1..NumFilas(FilasCruzadas)}

\* C17: a cross-tabulation has one row per distinct value of the row field
\* plus a total row and one column per distinct value of the column field
\* plus a total column; each cell counts the filtered rows with that pair of
\* values, and the grand total is the number of rows of the filtered table,
\* with or without age binning.
TablaCruzadaCuentaTodo ==
    CruceConFilas =>
        LET vf == resultado.args.variable_filas
            vc == resultado.args.variable_columnas
            tabla == resultado.valor.tabla_conteos
        IN  /\ SinClaveError(resultado)
            /\ DOMAIN tabla = ValoresCruzados(vf) \cup {"Total"}
            /\ \A f \in DOMAIN tabla : DOMAIN tabla[f] = ValoresCruzados(vc) \cup {"Total"}
            /\ \A f \in ValoresCruzados(vf), c \in ValoresCruzados(vc) :
                  LET Par(fila) == ValorCruzado(fila, vf) = f /\ ValorCruzado(fila, vc) = c
                  IN  tabla[f][c] = Cuenta(FilasCruzadas, Par)
            /\ tabla["Total"]["Total"] = NumFilas(FilasCruzadas)
            /\ resultado.valor.resumen.total_registros = NumFilas(FilasCruzadas)


\* C18: for every filter set over age range, sex, deprivation flags and
\* program eligibility, the cross-tabulation filter selects exactly the rows
\* the Population Filter selects for the same values, the single-letter sex
\* synonyms 'M' and 'H' included.
FiltroCruzadoComoPoblacional ==
    (Llamo("analizar_tabla_cruzada")
        /\ {resultado.args.variable_filas, resultado.args.variable_columnas}
               \subseteq df.columnas
        /\ DOMAIN resultado.args.filtros # {}
        /\ "ubicacion" \notin DOMAIN resultado.args.filtros) =>
        FiltrosTablaCruzada(df, resultado.args.filtros).filas
            = Devuelto(AplicarFiltros(df, resultado.args.filtros)).filas


(***************************************************************************)
(* The filters called on their own: aplicar_filtros on the shared table,   *)
(* aplicar_filtros of a DelimitadorPoblacional built on the subset a call  *)
(* returned, and _aplicar_filtros_basicos.                                 *)
(***************************************************************************)
\* DelimitadorPoblacional(subconjunto).aplicar_filtros(criterios), for the
\* subset and the criteria of the call the caller is looking at
FiltrarSubconjunto ==
    /\ Llamo("aplicar_filtros")
    /\ resultado.tipo = "retorno"
    /\ resultado' = Llamada("aplicar_filtros del subconjunto",
                            [criterios |-> resultado.args.criterios,
                             subconjunto |-> resultado.valor],
                            Retorno(Devuelto(AplicarFiltros(resultado.valor,
                                                            resultado.args.criterios))))
    /\ UNCHANGED <<df, traduccion, memo, messages, session_state>>

\* age ranges with one age only and with no age
RangosBasicos == RangosModelo \cup {<<30, 30>>, <<70, 65>>}

LlamarFiltrosBasicos(rango_edad, ubicacion, sexo, carencia) ==
    /\ resultado = Nada
    /\ resultado' = Llamada("_aplicar_filtros_basicos",
                            [rango_edad |-> rango_edad, ubicacion |-> ubicacion,
                             sexo |-> sexo, carencia |-> carencia],
                            Retorno(FiltrosBasicos(df, rango_edad, ubicacion, sexo, carencia)))
    /\ UNCHANGED <<df, traduccion, memo, messages, session_state>>

NextFiltro ==
    \/ \E c \in CriteriosModelo : LlamarAplicarFiltros(c)
    \/ FiltrarSubconjunto
    \/ \E r \in Opcional(RangosBasicos), u \in Opcional(UbicacionesModelo),
          s \in Opcional(SexosModelo), c \in Opcional(CarenciasModelo) :
          LlamarFiltrosBasicos(r, u, s, c)
    \/ Entregar

SpecFiltro == Init /\ [][NextFiltro]_vars

\* C19: filtering is idempotent: the Population Filter applied with the same
\* criteria to a subset it produced returns that subset unchanged.
FiltroIdempotente ==
    Llamo("aplicar_filtros del subconjunto") =>
        /\ resultado.tipo = "retorno"
        /\ resultado.valor = resultado.args.subconjunto

\* a subset with rows, smaller than the table, made with two criteria or
\* more, was filtered again
TestigoFiltroIdempotente ==
    /\ Llamo("aplicar_filtros del subconjunto")
    /\ Cardinality(DOMAIN resultado.args.criterios) >= 2
    /\ NumFilas(resultado.args.subconjunto) > 0
    /\ NumFilas(resultado.args.subconjunto) < NumFilas(df)

\* the rows of the table with lo <= age <= hi, in their order
FilasEntre(lo, hi) ==
    SelectSeq(df.filas, LAMBDA fila : lo <= fila["edad_persona"] /\ fila["edad_persona"] <= hi)

\* the table with its rows in another order
Reordenadas ==
    { [df EXCEPT !.filas = [i \in 1..NumFilas(df) |-> df.filas[p[i]]]] :
        p \in Permutations(1..NumFilas(df)) }

\* C20: with an age range [lo,hi] as the only criterion the filtered rows are
\* exactly those with lo <= age <= hi, and their count is the same for every
\* order of the rows of the table; likewise in _aplicar_filtros_basicos.
RangoInclusivo ==
    /\ (Llamo("aplicar_filtros") /\ DOMAIN resultado.args.criterios = {"rango_edad"}) =>
          LET rango == resultado.args.criterios["rango_edad"]
          IN  /\ resultado.valor.filas = FilasEntre(rango[1], rango[2])
              /\ \A t \in Reordenadas :
                    NumFilas(Devuelto(AplicarFiltros(t, resultado.args.criterios)))
                        = NumFilas(resultado.valor)
    /\ (Llamo("_aplicar_filtros_basicos")
            /\ Dado(resultado.args.rango_edad)
            /\ ~Dado(resultado.args.ubicacion)
            /\ ~Dado(resultado.args.sexo)
            /\ ~Dado(resultado.args.carencia)) =>
          LET rango == Valor(resultado.args.rango_edad)
          IN  /\ resultado.valor.filas = FilasEntre(rango[1], rango[2])
              /\ \A t \in Reordenadas :
                    NumFilas(FiltrosBasicos(t, resultado.args.rango_edad, <<>>, <<>>, <<>>))
                        = NumFilas(resultado.valor)

\* a range kept the row whose age is its upper bound and left another row out
TestigoRangoInclusivo ==
    /\ Llamo("aplicar_filtros")
    /\ DOMAIN resultado.args.criterios = {"rango_edad"}
    /\ NumFilas(resultado.valor) = 1
    /\ NumFilas(df) = 2
    /\ resultado.valor.filas[1]["edad_persona"] = resultado.args.criterios["rango_edad"][2]
    /\ df.filas[1] # resultado.valor.filas[1]


(***************************************************************************)
(* Properties of the profile, the gaps and the comparisons.                *)
(***************************************************************************)
\* the subset a profile call works on
SegmentoDelPerfil == Devuelto(AplicarFiltros(df, resultado.args.criterios))

\* C21: generar_perfil_segmento on an empty subset returns a profile with
\* total count 0 and mean age exactly 0.0; on a non-empty subset the mean
\* age (kept in tenths) lies within [0,120].
PerfilConEdadMedia ==
    Llamo("generar_perfil_segmento") =>
        /\ resultado.tipo = "retorno"
        /\ {"total_personas", "edad_promedio"} \subseteq DOMAIN resultado.valor
        /\ IF NumFilas(SegmentoDelPerfil) = 0
           THEN resultado.valor.total_personas = 0 /\ resultado.valor.edad_promedio = 0
           ELSE resultado.valor.edad_promedio >= 0 /\ resultado.valor.edad_promedio <= 120 * 10


\* the deprivations asked of identificar_carencias_sin_cobertura on its own
CarenciasPedidas == {"salud", "educacion", "seguridad_social", "vivienda"}

NextCarencias ==
    \/ \E c \in CarenciasPedidas, r \in Opcional(RangosModelo),
          u \in Opcional(UbicacionesModelo) : LlamarCarencias(c, r, u)
    \/ Entregar

SpecCarencias == Init /\ [][NextCarencias]_vars

\* the row has the deprivation of the call and passes its age and location filters
ConLaCarencia(fila) ==
    /\ fila[CarenciaMapCorto[resultado.args.carencia]] = "yes"
    /\ DadoRango(resultado.args.rango_edad) => EnRango(fila, Valor(resultado.args.rango_edad))
    /\ DadoTexto(resultado.args.ubicacion) => EnUbicacion(fila, Valor(resultado.args.ubicacion))

\* the row is marked eligible for a program mapped to the deprivation of the call
CubiertaPorAlguno(fila) ==
    \E p \in Elementos(ProgramasPorCarencia(resultado.args.carencia)) :
        ColumnaPrograma(p) \in DOMAIN fila /\ fila[ColumnaPrograma(p)] = "yes"

\* somebody in the table has the deprivation of the call
AlguienConLaCarencia ==
    /\ Llamo("identificar_carencias_sin_cobertura")
    /\ resultado.args.carencia \in DOMAIN CarenciaMapCorto
    /\ \E i \in 1..NumFilas(df) :
          df.filas[i][CarenciaMapCorto[resultado.args.carencia]] = "yes"

\* C22: identificar_carencias_sin_cobertura counts as gap exactly the people
\* with the deprivation, within the age and location filters, who are
\* eligible for none of the programs mapped to it; the gap never exceeds the
\* people with the deprivation; and the call returns a result, not an error,
\* whenever somebody in the table has the deprivation.
BrechaSinCobertura ==
    AlguienConLaCarencia =>
        LET SinCubrir(fila) == ConLaCarencia(fila) /\ ~CubiertaPorAlguno(fila)
        IN  /\ SinClaveError(resultado)
            /\ resultado.valor.metricas_principales.total_personas_con_carencia
                  = Cuenta(df, ConLaCarencia)
            /\ resultado.valor.metricas_principales.total_personas_sin_cobertura
                  = Cuenta(df, SinCubrir)
            /\ resultado.valor.metricas_principales.total_personas_sin_cobertura
                  <= resultado.valor.metricas_principales.total_personas_con_carencia

\* a filtered call found two people with the deprivation, one of them
\* eligible for a mapped program and the other for none
TestigoBrechaSinCobertura ==
    /\ AlguienConLaCarencia
    /\ Dado(resultado.args.ubicacion)
    /\ resultado.valor.metricas_principales.total_personas_con_carencia = 2
    /\ resultado.valor.metricas_principales.total_personas_sin_cobertura = 1


\* a call of one of the two multi-program comparisons
LlamoComparacion ==
    Llamo("analizar_elegibilidad_multiple") \/ Llamo("analizar_brechas_multiprograma")

\* the programs of the list the comparison has to analyse: those the table
\* has a column for, when somebody passes the age and location filters
ProgramasAnalizables ==
    IF NumFilas(FiltrosBasicos(df, resultado.args.rango_edad, resultado.args.ubicacion,
                               <<>>, <<>>)) = 0
    THEN {}
    ELSE {p \in Elementos(resultado.args.programas) : TieneColumna(df, p)}

\* the people the filters of the call keep who are eligible for the program
ElegiblesDe(p) ==
    LET Elegible(fila) == fila[ColumnaPrograma(p)] = "yes"
    IN  Cuenta(FiltrosBasicos(df, resultado.args.rango_edad, resultado.args.ubicacion,
                              <<>>, <<>>), Elegible)

\* the ranking and the top program the call reports, whichever comparison it is
RankingReportado ==
    IF Llamo("analizar_elegibilidad_multiple")
    THEN resultado.valor.analisis_comparativo.ranking_elegibles
    ELSE resultado.valor.analisis_comparativo.ranking_por_elegibles

PrimeroReportado ==
    IF Llamo("analizar_elegibilidad_multiple")
    THEN resultado.valor.analisis_comparativo.programa_mayor_elegibilidad
    ELSE resultado.valor.analisis_comparativo.programa_mas_cobertura

TotalAnalizadosReportado ==
    IF Llamo("analizar_elegibilidad_multiple")
    THEN resultado.valor.resumen.total_programas_analizados
    ELSE resultado.valor.resumen_general.total_programas_analizados

\* C23: both multi-program comparisons report a ranking with every analysed
\* program of the list exactly once, in non-increasing order of eligible
\* count, the first of the ranking as the top program, and
\* total_programas_analizados equal to the length of the ranking.
RankingDeProgramas ==
    (LlamoComparacion /\ ProgramasAnalizables # {}) =>
        /\ SinClaveError(resultado)
        /\ Elementos(RankingReportado) = ProgramasAnalizables
        /\ Len(RankingReportado) = Cardinality(ProgramasAnalizables)
        /\ \A i \in 1..(Len(RankingReportado) - 1) :
              ElegiblesDe(RankingReportado[i]) >= ElegiblesDe(RankingReportado[i + 1])
        /\ PrimeroReportado = RankingReportado[1]
        /\ TotalAnalizadosReportado = Len(RankingReportado)


(***************************************************************************)
(* The helpers of the eligibility report that describe an area:            *)
(* _caracterizar_colonia, _clasificar_vulnerabilidad, _generar_comparativa *)
(***************************************************************************)
\* the comparison that also admits a mean equal to the threshold
PromedioAlcanza(carencias, total, umbral) ==
    (carencias.salud + carencias.educacion + carencias.seguridad_social) * 100
        >= umbral * 3 * total

\* sum(carencias.values()) / len(carencias) / total * 100 > umbral, in
\* integers: the quotient is exact enough that the float comparison and the
\* rational one agree for every table of up to hundreds of rows
PromedioSupera(carencias, total, umbral) ==
    (carencias.salud + carencias.educacion + carencias.seguridad_social) * 100
        > umbral * 3 * total

ClasificarVulnerabilidad(carencias, total) ==
    IF total = 0 THEN "Sin datos"
    ELSE IF PromedioSupera(carencias, total, 60) THEN "Muy Alta"
    ELSE IF PromedioSupera(carencias, total, 45) THEN "Alta"
    ELSE IF PromedioSupera(carencias, total, 30) THEN "Moderada"
    ELSE "Baja"

\* the counts of the three deprivation columns in the rows of the area
CarenciasCol(df_colonia) ==
    LET ConSalud(fila) == fila[ColSalud] = "yes"
        ConEducacion(fila) == fila[ColEducacion] = "yes"
        ConSeguridad(fila) == fila[ColSeguridad] = "yes"
    IN  [salud |-> Cuenta(df_colonia, ConSalud),
         educacion |-> Cuenta(df_colonia, ConEducacion),
         seguridad_social |-> Cuenta(df_colonia, ConSeguridad)]

CaracterizarColonia(df_colonia) ==
    IF NumFilas(df_colonia) > 0
    THEN [nivel_vulnerabilidad |->
              ClasificarVulnerabilidad(CarenciasCol(df_colonia), NumFilas(df_colonia)),
          carencias_principales |-> CarenciasCol(df_colonia)]
    ELSE DictVacio

\* the rows _obtener_contexto_colonia takes as the area: self.df where
\* colonia, ageb or ubicacion contains the text
DfColonia(t, ubicacion) ==
    LET EnArea(fila) == EnUbicacion(fila, ubicacion)
    IN  FiltrarFilas(t, EnArea)

\* the area names of the model in the order groupby('colonia') yields its
\* groups: sorted by name
ColoniasOrdenadas ==
    <<"Barrio Centro", "Centro", "Centro Norte", "Centro Sur", "El Centro", "Zona Centro">>

\* a position that is always None
SinPosicion(data, ubicacion) == <<>>

\* next((i+1 for i, x in enumerate(data) if x['colonia'].lower() ==
\* ubicacion.lower()), None), then int(...) if ... else None
PosicionActual(data, ubicacion) ==
    LET hallados == {i \in 1..Len(data) : Lower(data[i].colonia) = Lower(ubicacion)}
    IN  IF hallados = {} THEN <<>>
        ELSE <<CHOOSE i \in hallados : \A j \in hallados : i <= j>>

GenerarComparativa(programa, ubicacion, df_filtrado) ==
    LET Presente(colonia) == colonia \in ValoresDe(df_filtrado, "colonia")
        grupos == SelectSeq(ColoniasOrdenadas, Presente)
        Dato(colonia) ==
            LET DeLaColonia(fila) == fila["colonia"] = colonia
                Elegible(fila) == DeLaColonia(fila) /\ EsElegible(fila, programa)
            IN  [colonia |-> colonia,
                 elegibles |-> Cuenta(df_filtrado, Elegible),
                 tasa |-> Tasa(Cuenta(df_filtrado, Elegible),
                               Cuenta(df_filtrado, DeLaColonia), 1)]
        Elegibles(x) == x.elegibles
    IN  Sea(OrdenarDesc([i \in 1..Len(grupos) |-> Dato(grupos[i])], Elegibles),
            LAMBDA comparativa_data :
                [top_colonias |-> Primeros(comparativa_data, 5),
                 posicion_colonia_actual |-> PosicionActual(comparativa_data, ubicacion),
                 total_colonias_comparadas |-> Len(comparativa_data)])


\* the rows one area contributes to a table of the comparison: none, one
\* person who is not eligible, one who is, or two who are
FilasDeColonia(k, config) ==
    LET colonia == ColoniasOrdenadas[k]
    IN  CASE config = 0 -> <<>>
          [] config = 1 ->
                <<Persona(k, 40, "Mujer", colonia, "0011", "urbana", "no", "no", "no", "no", {})>>
          [] config = 2 ->
                <<Persona(k, 70, "Hombre", colonia, "0011", "urbana", "yes", "yes", "yes", "no",
                          ProgramasModelo)>>
          [] OTHER ->
                <<Persona(k, 66, "Mujer", colonia, "0025", "urbana", "yes", "no", "no", "no",
                          ProgramasModelo),
                  Persona(k, 80, "Hombre", colonia, "0025", "urbana", "yes", "yes", "no", "yes",
                          ProgramasModelo)>>

RECURSIVE FilasDeColonias(_, _)
FilasDeColonias(config, k) ==
    IF k = 0 THEN <<>>
    ELSE FilasDeColonias(config, k - 1) \o FilasDeColonia(k, config[k])

TablaDeColonias(config) ==
    [columnas |-> ColumnasBase \cup {ColApoyos} \cup {ColumnaPrograma(p) : p \in ProgramasModelo},
     filas |-> FilasDeColonias(config, Len(ColoniasOrdenadas))]

\* tables with up to six areas: up to two persons in each of the first two,
\* one eligible person or nobody in each of the others
TablasColonias ==
    {TablaDeColonias(config) :
        config \in {c \in [1..Len(ColoniasOrdenadas) -> 0..3] : \A k \in 3..Len(c) : c[k] \in {0, 2}}}

\* the tables with at most the first two areas
TablasArea ==
    {TablaDeColonias(config) :
        config \in {c \in [1..Len(ColoniasOrdenadas) -> 0..3] : \A k \in 3..Len(c) : c[k] = 0}}

\* the locations asked for: one that every area name contains and that is
\* the name of one area, the name of another area, a part of a name, and a
\* text no row contains
UbicacionesPedidas == {"centro", "CENTRO SUR", "norte", "poniente"}

\* the sizes of an area and the counts handed to the classification
TotalesModelo == {0, 5, 20}

LlamarClasificar(carencias, total) ==
    /\ resultado = Nada
    /\ resultado' = Llamada("_clasificar_vulnerabilidad",
                            [carencias |-> carencias, total |-> total],
                            Retorno(ClasificarVulnerabilidad(carencias, total)))
    /\ UNCHANGED <<df, traduccion, memo, messages, session_state>>

\* the call _obtener_contexto_colonia makes with the rows of the area
LlamarCaracterizar(ubicacion) ==
    /\ resultado = Nada
    /\ resultado' = Llamada("_caracterizar_colonia", [ubicacion |-> ubicacion],
                            Retorno(CaracterizarColonia(DfColonia(df, ubicacion))))
    /\ UNCHANGED <<df, traduccion, memo, messages, session_state>>

\* the call analizar_elegibilidad_programa makes in its section 5: the
\* program has its column and the rows filtered by the location are not empty
LlamarComparativa(programa, ubicacion) ==
    /\ resultado = Nada
    /\ ColumnaPrograma(programa) \in df.columnas
    /\ LET df_filtrado == FiltrosBasicos(df, <<>>, <<ubicacion>>, <<>>, <<>>)
       IN  /\ NumFilas(df_filtrado) > 0
           /\ resultado' = Llamada("_generar_comparativa",
                                   [programa |-> programa, ubicacion |-> ubicacion],
                                   Retorno(GenerarComparativa(programa, ubicacion, df_filtrado)))
    /\ UNCHANGED <<df, traduccion, memo, messages, session_state>>

InitVulnerabilidad ==
    /\ df \in TablasArea
    /\ resultado = Nada
    /\ traduccion = Nada
    /\ memo = DictVacio
    /\ messages = HistoriaInicial
    /\ session_state = SinSesion

NextVulnerabilidad ==
    \/ /\ resultado = Nada
       /\ \E total \in TotalesModelo :
             \E s \in 0..total, e \in 0..total, g \in 0..total :
                LlamarClasificar([salud |-> s, educacion |-> e, seguridad_social |-> g], total)
    \/ \E u \in UbicacionesPedidas : LlamarCaracterizar(u)
    \/ Entregar

SpecVulnerabilidad == InitVulnerabilidad /\ [][NextVulnerabilidad]_vars

InitComparativa ==
    /\ df \in TablasColonias
    /\ resultado = Nada
    /\ traduccion = Nada
    /\ memo = DictVacio
    /\ messages = HistoriaInicial
    /\ session_state = SinSesion

NextComparativa ==
    \/ \E p \in ProgramasPedidos, u \in UbicacionesPedidas : LlamarComparativa(p, u)
    \/ Entregar

SpecComparativa == InitComparativa /\ [][NextComparativa]_vars


(***************************************************************************)
(* Properties of the description of an area.                               *)
(***************************************************************************)
ComparativaHecha == resultado # Nada /\ resultado.op = "_generar_comparativa"

\* the rows the comparison was made over
FiltradoComparado == FiltrosBasicos(df, <<>>, <<resultado.args.ubicacion>>, <<>>, <<>>)

\* how many eligible persons each area has among the rows
ElegiblesPorArea(f, programa) ==
    [c \in ValoresDe(f, "colonia") |->
        LET Elegible(fila) == fila["colonia"] = c /\ fila[ColumnaPrograma(programa)] = "yes"
        IN  Cuenta(f, Elegible)]

\* the areas named as the location, ignoring case
AreasIguales ==
    {c \in ValoresDe(FiltradoComparado, "colonia") : Lower(c) = Lower(resultado.args.ubicacion)}

\* C24: the comparison between areas of an eligibility query with a location
\* returns at most 5 areas, each with its count of eligible persons, in
\* non-increasing order of that count and none below an area left out; the
\* position is the 1-based rank, in that order, of the area whose name equals
\* the location ignoring case, and None when no area has that name; the call
\* returns in both cases
TopCincoYPosicion ==
    ComparativaHecha =>
        /\ resultado.tipo = "retorno"
        /\ Sea(ElegiblesPorArea(FiltradoComparado, resultado.args.programa), LAMBDA el :
           Sea(AreasIguales, LAMBDA iguales :
           LET top == resultado.valor.top_colonias
               pos == resultado.valor.posicion_colonia_actual
               EnTop == {top[i].colonia : i \in 1..Len(top)}
           IN  /\ Len(top) <= 5
               /\ Len(top) = IF Cardinality(DOMAIN el) < 5 THEN Cardinality(DOMAIN el) ELSE 5
               /\ \A i \in 1..Len(top) :
                     /\ top[i].colonia \in DOMAIN el
                     /\ top[i].elegibles = el[top[i].colonia]
               /\ \A i \in 1..Len(top), j \in 1..Len(top) :
                     i < j => top[i].elegibles >= top[j].elegibles /\ top[i].colonia # top[j].colonia
               /\ \A c \in (DOMAIN el) \ EnTop, i \in 1..Len(top) : el[c] <= top[i].elegibles
               /\ IF iguales = {} THEN pos = <<>>
                  ELSE /\ pos # <<>>
                       /\ \E c \in iguales :
                             /\ pos[1] > Cardinality({a \in DOMAIN el : el[a] > el[c]})
                             /\ pos[1] <= Cardinality({a \in DOMAIN el : el[a] >= el[c]})
                             /\ pos[1] <= Len(top) => top[pos[1]].colonia = c))

\* six areas were compared, five are listed, and the area asked for is the
\* sixth
TestigoTopCincoYPosicion ==
    /\ ComparativaHecha
    /\ resultado.tipo = "retorno"
    /\ resultado.valor.total_colonias_comparadas = 6
    /\ Len(resultado.valor.top_colonias) = 5
    /\ resultado.valor.posicion_colonia_actual = <<6>>
    /\ resultado.valor.top_colonias[1].elegibles > resultado.valor.top_colonias[5].elegibles

\* the location matches rows but is the name of no area: the position is None
TestigoSinPosicion ==
    /\ ComparativaHecha
    /\ resultado.tipo = "retorno"
    /\ AreasIguales = {}
    /\ resultado.valor.posicion_colonia_actual = <<>>


ClasificacionHecha == resultado # Nada /\ resultado.op = "_clasificar_vulnerabilidad"

CaracterizacionHecha == resultado # Nada /\ resultado.op = "_caracterizar_colonia"

\* the band of a mean prevalence given as the sum of the three counts over
\* three times the number of people
Banda(suma, total) ==
    CASE suma * 100 > 60 * 3 * total -> "Muy Alta"
      [] suma * 100 <= 60 * 3 * total /\ suma * 100 > 45 * 3 * total -> "Alta"
      [] suma * 100 <= 45 * 3 * total /\ suma * 100 > 30 * 3 * total -> "Moderada"
      [] OTHER -> "Baja"

\* how many rows of the area have 'yes' in the column
ConCarenciaEnArea(columna) ==
    Cardinality({i \in 1..Len(df.filas) :
        /\ EnUbicacion(df.filas[i], resultado.args.ubicacion)
        /\ df.filas[i][columna] = "yes"})

PersonasEnArea ==
    Cardinality({i \in 1..Len(df.filas) : EnUbicacion(df.filas[i], resultado.args.ubicacion)})

FrasesDeCarencia ==
    {i \in 1..Len(MapeoGrupos) :
        /\ MapeoGrupos[i].mapeo.tipo = "columna"
        /\ "filtro" \in DOMAIN MapeoGrupos[i].mapeo
        /\ MapeoGrupos[i].mapeo.filtro = "yes"
        /\ MapeoGrupos[i].mapeo.valor \in {ColSalud, ColEducacion, ColSeguridad}}

\* the criterion that asks for 'yes' in the deprivation column
CriterioDe(columna) == CHOOSE k \in DOMAIN CarenciaMap : CarenciaMap[k] = columna

\* C26: every deprivation phrase of the dictionary that occurs in a query sets
\* the deprivation criterion of the column it maps to, so the translation of
\* a query with such a phrase is not 'sin_criterios_detectados'
FraseDeCarenciaPoneCriterio ==
    traduccion # Nada =>
        \A i \in FrasesDeCarencia :
            Contiene(Lower(traduccion.consulta_original), MapeoGrupos[i].termino) =>
                /\ traduccion.estado # "sin_criterios_detectados"
                /\ CriterioDe(MapeoGrupos[i].mapeo.valor)
                       \in DOMAIN traduccion.criterios_demograficos
                /\ traduccion.criterios_demograficos[CriterioDe(MapeoGrupos[i].mapeo.valor)] = TRUE


(***************************************************************************)
(* AgenteAnaliticoLLM.procesar_consulta: the history self.messages         *)
(***************************************************************************)
\* consultas whose history the model follows before it stops asking
MaxConsultas == 2

\* what the LLM can ask for in one tool call: a tool and its arguments as
\* JSON text, here whether json.loads accepts the text and what it yields
PeticionesModelo ==
    { [name |-> "analizar_intensidad_carencias", json_valido |-> TRUE, programa |-> ""],
      [name |-> "analizar_elegibilidad_programa", json_valido |-> TRUE,
       programa |-> "pension_adultos_mayores"],
      [name |-> "analizar_elegibilidad_programa", json_valido |-> FALSE, programa |-> ""],
      [name |-> "resumir_todo", json_valido |-> TRUE, programa |-> ""] }

\* the tool_calls of a response: each request with the id the API gave it
ToolCalls(peticiones) ==
    [k \in 1..Len(peticiones) |->
        [id |-> "call_" \o ToString(k), name |-> peticiones[k].name,
         json_valido |-> peticiones[k].json_valido, programa |-> peticiones[k].programa]]

\* the answers of client.chat.completions.create to the first request: the
\* request fails, or a message with content, or a message with tool calls
RespuestasLLM ==
    {[tipo |-> "excepcion"], [tipo |-> "mensaje", tool_calls |-> <<>>]}
        \cup {[tipo |-> "mensaje", tool_calls |-> ToolCalls(ps)] :
                ps \in SecuenciasHasta(PeticionesModelo, 2) \ {<<>>}}

\* the body of the loop for one tool call, up to `result`: json.loads of the
\* arguments, then the tool or the 'no reconocida' dict
EjecutarHerramienta(t, tool_call) ==
    IF ~tool_call.json_valido THEN Excepcion("JSONDecodeError", tool_call.id)
    ELSE IF tool_call.name = "analizar_elegibilidad_programa"
    THEN ElegibilidadPrograma(t, tool_call.programa, <<>>, <<>>, <<>>, <<>>)
    ELSE IF tool_call.name = "analizar_intensidad_carencias"
    THEN IntensidadCarencias(t, <<>>, <<>>).retorno
    ELSE Retorno(ErrorDict("Función no reconocida"))

\* the first tool call of the loop that raises, or one past the last
PrimeraFalla(t, tool_calls) ==
    LET fallan == {k \in 1..Len(tool_calls) :
                      EjecutarHerramienta(t, tool_calls[k]).tipo = "excepcion"}
    IN  IF fallan = {} THEN Len(tool_calls) + 1
        ELSE CHOOSE k \in fallan : \A j \in fallan : k <= j

\* self.messages when procesar_consulta returns
ProcesarConsulta(h, t, consulta_usuario, respuesta, segunda_falla) ==
    LET h1 == Append(h, [role |-> "user", content |-> consulta_usuario])
    IN  IF respuesta.tipo = "excepcion" THEN h1
        ELSE
        LET h2 == Append(h1, [role |-> "assistant", tool_calls |-> respuesta.tool_calls])
            falla == PrimeraFalla(t, respuesta.tool_calls)
            h3 == h2 \o [k \in 1..(falla - 1) |->
                            [role |-> "tool", tool_call_id |-> respuesta.tool_calls[k].id,
                             name |-> respuesta.tool_calls[k].name]]
        IN  IF Len(respuesta.tool_calls) = 0 THEN h2
            ELSE IF falla <= Len(respuesta.tool_calls) \/ segunda_falla THEN h3
            ELSE Append(h3, [role |-> "assistant", tool_calls |-> <<>>])

\* how many consultas the history holds
ConsultasEnHistoria(h) ==
    Cardinality({i \in 1..Len(h) : h[i].role = "user"})

LlamarAgente(consulta_usuario, respuesta, segunda_falla) ==
    /\ ConsultasEnHistoria(messages) < MaxConsultas
    /\ messages' = ProcesarConsulta(messages, df, consulta_usuario, respuesta, segunda_falla)
    /\ UNCHANGED <<df, resultado, traduccion, memo, session_state>>

InitAgente ==
    /\ df \in TablasConsulta
    /\ resultado = Nada
    /\ traduccion = Nada
    /\ memo = DictVacio
    /\ messages = HistoriaInicial
    /\ session_state = SinSesion

NextAgente ==
    \E respuesta \in RespuestasLLM, segunda_falla \in BOOLEAN :
        LlamarAgente("consulta", respuesta, segunda_falla)

SpecAgente == InitAgente /\ [][NextAgente]_vars

\* the message is an assistant message with tool calls
PideHerramientas(m) == m.role = "assistant" /\ Len(m.tool_calls) > 0

\* C27: after any call of procesar_consulta, however it ended, every
\* assistant message with tool calls in self.messages is followed by exactly
\* one tool message for each of its tool-call ids
HistoriaBienFormada ==
    \A i \in 1..Len(messages) :
        PideHerramientas(messages[i]) =>
            /\ i + Len(messages[i].tool_calls) <= Len(messages)
            /\ \A k \in 1..Len(messages[i].tool_calls) :
                  /\ messages[i + k].role = "tool"
                  /\ messages[i + k].tool_call_id = messages[i].tool_calls[k].id
            /\ i + Len(messages[i].tool_calls) < Len(messages) =>
                  messages[i + Len(messages[i].tool_calls) + 1].role # "tool"


(***************************************************************************)
(* The clarification dialogue of procesar_consulta_mejorado.               *)
(***************************************************************************)
\* the reformulations generar_respuesta_clarificacion writes at the end of
\* every clarification request
ReformulacionesOfrecidas ==
    { "Personas vulnerables por edad sin pensiones",
      "Brechas de cobertura en servicios de salud",
      "Población prioritaria para programas educativos",
      "Beneficiarios de pensiones por grupo de edad" }

\* the answer the caller is looking at asks for a clarification
PideClarificacion(r) ==
    /\ r # Nada
    /\ r.op = "procesar_consulta_mejorado"
    /\ r.tipo = "retorno"
    /\ r.valor.genera = "generar_respuesta_clarificacion"

\* the user reads a clarification request and submits one of the
\* reformulations it offers as the next query
Reformular(reformulacion) ==
    /\ PideClarificacion(resultado)
    /\ LET r == ProcesarConsultaMejorado(df, reformulacion, traduccion)
       IN  /\ resultado' = Llamada("procesar_consulta_mejorado",
                                   [consulta_usuario |-> reformulacion], r.retorno)
           /\ traduccion' = r.traduccion
    /\ UNCHANGED <<df, memo, messages, session_state>>

NextDialogo ==
    \/ \E consulta \in ConsultasUsuario : LlamarProcesarConsulta(consulta)
    \/ \E reformulacion \in ReformulacionesOfrecidas : Reformular(reformulacion)
    \/ Entregar

SpecDialogo == InitConsulta /\ [][NextDialogo]_vars

\* C28: a reformulation offered by a clarification request, submitted as the
\* next query, is not answered with another clarification request
ReformulacionAvanza ==
    [][(/\ PideClarificacion(resultado)
        /\ resultado' # Nada
        /\ resultado'.op = "procesar_consulta_mejorado"
        /\ resultado'.args.consulta_usuario \in ReformulacionesOfrecidas)
            => ~PideClarificacion(resultado')]_vars


(***************************************************************************)
(* The chat UI, src/frontend/app.py: one action is one run of the script   *)
(* for a logged-in user who is not "demo".                                 *)
(***************************************************************************)
\* LIMITE_CONSULTAS_DIARIAS, 50 unless the secrets say otherwise
LimiteConsultas == 3

\* the counters the model follows no further
MaxContador == LimiteConsultas + 2

\* st.session_state after the login and the loading of the agent; the agent
\* is kept by how many queries it has been given, an absent prompt_temp is
\* <<>>, and an absent prompt_sugerido is "" as session_state.get reads it
SesionIniciada ==
    [autenticado |-> TRUE, usuario |-> "ana", agente |-> [atendidas |-> 0],
     messages |-> <<>>, consultas_realizadas |-> 0,
     prompt_temp |-> <<>>, prompt_sugerido |-> ""]

\* verificar_limite_consultas()[0] for a user who is not "demo"
VerificarLimite(s) == s.consultas_realizadas < LimiteConsultas

\* what the user did to start the run: nothing (a rerun), a click on an
\* example, on a suggested question or on 'Limpiar chat', or a chat input
Eventos ==
    { [tipo |-> "ninguno", texto |-> ""],
      [tipo |-> "ejemplo", texto |-> "¿Cuántas personas hay en total"],
      [tipo |-> "sugerencia", texto |-> "¿Cuántos niños de 0 a 3 años?"],
      [tipo |-> "limpiar", texto |-> ""],
      [tipo |-> "chat", texto |-> "mujeres con becas"] }

\* the messages.append, the count and prompt_temp of an accepted query
Aceptar(s, prompt) ==
    [s EXCEPT !.messages = Append(@, [role |-> "user", content |-> prompt]),
              !.consultas_realizadas = @ + 1,
              !.prompt_temp = <<prompt>>]

\* the block `if "prompt_temp" in st.session_state`: the reply of the agent
\* or, past the limit, only st.error; prompt_temp is deleted in both cases
GenerarRespuesta(s, falla) ==
    IF s.prompt_temp = <<>> THEN s
    ELSE IF ~VerificarLimite(s) THEN [s EXCEPT !.prompt_temp = <<>>]
    ELSE [s EXCEPT
            !.agente.atendidas = @ + 1,
            !.messages = Append(@, [role |-> "assistant",
                                    content |-> IF falla THEN "Error" ELSE "respuesta"]),
            !.prompt_temp = <<>>]

\* the input block at the end of the script
EntradaUsuario(s, evento) ==
    IF s.prompt_sugerido # ""
    THEN Aceptar([s EXCEPT !.prompt_sugerido = ""], s.prompt_sugerido)
    ELSE IF VerificarLimite(s) /\ evento.tipo = "chat"
    THEN Aceptar(s, evento.texto)
    ELSE s

\* one run of the script from the sidebar to the input block; a click on a
\* suggested question finds its button not drawn and sets nothing
Script(s, evento, falla) ==
    LET s1 == IF evento.tipo = "ejemplo" THEN [s EXCEPT !.prompt_sugerido = evento.texto]
              ELSE s
    IN  IF evento.tipo = "limpiar"
        THEN [s1 EXCEPT !.messages = <<>>, !.consultas_realizadas = 0]
        ELSE EntradaUsuario(GenerarRespuesta(s1, falla), evento)

\* a run: the rerun the script asked for when it accepted a query, or a run
\* an action of the user starts; the chat input exists only below the limit
Ejecutar(evento, falla) ==
    /\ session_state.autenticado
    /\ session_state.prompt_temp # <<>> => evento.tipo = "ninguno"
    /\ evento.tipo = "chat" => VerificarLimite(session_state)
    /\ session_state.consultas_realizadas < MaxContador
    /\ session_state.agente.atendidas < MaxContador
    /\ session_state' = Script(session_state, evento, falla)
    /\ UNCHANGED <<df, resultado, traduccion, memo, messages>>

InitChat ==
    /\ df = [columnas |-> ColumnasBase, filas |-> <<>>]
    /\ resultado = Nada
    /\ traduccion = Nada
    /\ memo = DictVacio
    /\ messages = HistoriaInicial
    /\ session_state = SesionIniciada

NextChat == \E evento \in Eventos, falla \in BOOLEAN : Ejecutar(evento, falla)

SpecChat == InitChat /\ [][NextChat]_vars

\* C29: a query that was accepted and counted (prompt_temp is set) is given to
\* the agent on the following run, which appends the assistant's reply
ConsultaAceptadaRespondida ==
    [][(session_state.prompt_temp # <<>> /\ session_state' # session_state) =>
          /\ session_state'.agente.atendidas = session_state.agente.atendidas + 1
          /\ Len(session_state'.messages) > Len(session_state.messages)
          /\ session_state'.messages[Len(session_state.messages) + 1].role = "assistant"]_vars

\* C30: within a login session consultas_realizadas never exceeds the daily
\* limit, and neither does the number of queries the agent has answered
CuotaRespetada ==
    session_state.autenticado =>
        /\ session_state.consultas_realizadas <= LimiteConsultas
        /\ session_state.agente.atendidas <= LimiteConsultas

====
